---- MODULE Spec2Model ----
(***************************************************************************)
(* Model of ExcelToMarkdownPreprocessor (src/excel_reader_visualizer.py):  *)
(* region detection (detect_table_structure, _find_continuous_region,      *)
(* _detect_header_row), extraction of the cell map and data bounds         *)
(* (extract_structured_data), tables (_extract_table_data) and pagination  *)
(* (create_paged_visualizations_with_data).                                *)
(*                                                                         *)
(* Strings are sequences of one-character strings, so that formatting a    *)
(* coordinate and parsing it back are two different computations.          *)
(***************************************************************************)
EXTENDS Integers, Sequences, FiniteSets, TLC

VARIABLES
    pc,             \* position of the running method
    sheet,          \* openpyxl worksheet: (row, col) -> kind of the value
    visited,        \* detect_table_structure: set of coordinates
    tables,         \* detect_table_structure: list of reported regions
    scan_pos,       \* detect_table_structure: (row, column) of the current cell
    region,         \* locals of _find_continuous_region
    hdr,            \* arguments and result of one _detect_header_row call
    sheet_data,     \* ai_optimized_data[sheet_name]
    cfg,            \* sheet.print_area and the arguments of the methods
    pages_data,     \* ordered dict page_key -> page, as a list of entries
    page_log,       \* history: the rectangles computed at lines 610-619
    table_data,     \* results of _extract_table_data, one per reported region
    fmt,            \* a cell and the result of _format_cell_value on it
    export_data     \* export_for_ai_processing: export_data[sheet_name]

vars == <<pc, sheet, visited, tables, scan_pos, region, hdr, sheet_data,
          cfg, pages_data, page_log, table_data, fmt, export_data>>

(***************************************************************************)
(* Bounds of the model                                                     *)
(***************************************************************************)
GridRows == 3
GridCols == 4
MaxCells == 3
HdrCols == 10
MaxHeight == 12
MaxWidth == 3
MaxRowsPerPage == 5
MaxColsPerPage == 2
MaxOverlap == 2
MaxRowTiles == 4
TableRows == 3
TableCols == 2
BlockRows == 4
BlockCols == 3
MaxNum == 9
MaxExp == 4

\* Python's None for an optional value: None is <<>>, a value v is <<v>>
None == <<>>
Some(v) == <<v>>
\* kinds of cell.value; NoValue is the value None of an empty cell
NoValue == "None"
Kinds == {"str", "int"}

Min(a, b) == IF a <= b THEN a ELSE b
Max(a, b) == IF a >= b THEN a ELSE b

\* d[key] = value on an insertion-ordered dict
DictSet(d, key, value) ==
    IF \E i \in 1..Len(d) : d[i].key = key
    THEN [i \in 1..Len(d) |->
             IF d[i].key = key THEN [key |-> key, value |-> value] ELSE d[i]]
    ELSE Append(d, [key |-> key, value |-> value])

(***************************************************************************)
(* Text: column letters, decimal numbers, coordinates                      *)
(***************************************************************************)
Letters == <<"A", "B", "C", "D", "E", "F", "G", "H", "I", "J", "K", "L", "M",
             "N", "O", "P", "Q", "R", "S", "T", "U", "V", "W", "X", "Y", "Z">>
Digits == <<"0", "1", "2", "3", "4", "5", "6", "7", "8", "9">>

LetterSet == {Letters[i] : i \in 1..26}
DigitSet == {Digits[i] : i \in 1..10}
IsLetter(ch) == ch \in LetterSet
IsDigit(ch) == ch \in DigitSet
LetterIndex == [ch \in LetterSet |-> CHOOSE i \in 1..26 : Letters[i] = ch]
DigitIndex == [ch \in DigitSet |-> CHOOSE i \in 1..10 : Digits[i] = ch]
LetterValue(ch) == LetterIndex[ch]
DigitValue(ch) == DigitIndex[ch] - 1

\* openpyxl.utils.get_column_letter: bijective base 26, most significant first
RECURSIVE get_column_letter(_)
get_column_letter(col_idx) ==
    IF col_idx <= 0 THEN <<>>
    ELSE LET remainder == col_idx % 26
             quotient == col_idx \div 26
         IN IF remainder = 0
            THEN get_column_letter(quotient - 1) \o <<Letters[26]>>
            ELSE get_column_letter(quotient) \o <<Letters[remainder]>>

\* openpyxl.utils.column_index_from_string: the value of the first n letters
RECURSIVE ColumnValue(_, _)
ColumnValue(s, n) ==
    IF n = 0 THEN 0 ELSE 26 * ColumnValue(s, n - 1) + LetterValue(s[n])

column_index_from_string(s) == ColumnValue(s, Len(s))

\* str(n) for an integer n >= 0
RECURSIVE str(_)
str(n) ==
    IF n < 10 THEN <<Digits[n + 1]>>
    ELSE str(n \div 10) \o <<Digits[(n % 10) + 1]>>

\* int(s) for a string of decimal digits: the value of the first n digits
RECURSIVE DecimalValue(_, _)
DecimalValue(s, n) ==
    IF n = 0 THEN 0 ELSE 10 * DecimalValue(s, n - 1) + DigitValue(s[n])

int(s) == DecimalValue(s, Len(s))

\* cell.coordinate
Coordinate(row, col) == get_column_letter(col) \o str(row)

\* f"{get_column_letter(c1)}{r1}:{get_column_letter(c2)}{r2}"
RangeString(r1, c1, r2, c2) ==
    Coordinate(r1, c1) \o <<":">> \o Coordinate(r2, c2)

\* [A-Z]+ at s[i]: length of the longest run of letters starting there
RECURSIVE LetterRun(_, _)
LetterRun(s, i) ==
    IF i <= Len(s) /\ IsLetter(s[i]) THEN 1 + LetterRun(s, i + 1) ELSE 0

\* \d+ at s[i]: length of the longest run of digits starting there
RECURSIVE DigitRun(_, _)
DigitRun(s, i) ==
    IF i <= Len(s) /\ IsDigit(s[i]) THEN 1 + DigitRun(s, i + 1) ELSE 0

\* re.match(r'([A-Z]+)(\d+)', s): None, or the two groups
MatchCoord(s) ==
    LET nl == LetterRun(s, 1)
        nd == DigitRun(s, nl + 1)
    IN IF nl = 0 \/ nd = 0 THEN None
       ELSE Some([letters |-> SubSeq(s, 1, nl),
                  digits |-> SubSeq(s, nl + 1, nl + nd),
                  end |-> nl + nd])

\* s.find(sep, i): index of the first sep at or after s[i], 0 when none
RECURSIVE Find(_, _, _)
Find(s, sep, i) ==
    IF i > Len(s) THEN 0
    ELSE IF s[i] = sep THEN i
    ELSE Find(s, sep, i + 1)

\* s.split(sep)
RECURSIVE Split(_, _)
Split(s, sep) ==
    LET k == Find(s, sep, 1)
    IN IF k = 0 THEN <<s>>
       ELSE <<SubSeq(s, 1, k - 1)>> \o Split(SubSeq(s, k + 1, Len(s)), sep)

(***************************************************************************)
(* The worksheet                                                           *)
(***************************************************************************)
\* sheet.cell(row, column).value; a cell outside the stored grid is empty
CellValue(sh, row, col) ==
    IF <<row, col>> \in DOMAIN sh THEN sh[<<row, col>>] ELSE NoValue

NonEmpty(sh) == {p \in DOMAIN sh : sh[p] # NoValue}

\* sheet.iter_rows() yields the cells row by row: p comes before q
RowMajorLess(p, q) == p[1] < q[1] \/ (p[1] = q[1] /\ p[2] < q[2])

(***************************************************************************)
(* _detect_header_row                                                      *)
(***************************************************************************)
\* Natural numbers as little-endian lists of base-10000 limbs
Base == 10000
\* 2^54
Pow2_54 == <<1984, 948, 3985, 8014, 1>>
\* 2 * 6305039478318694 + 1, where 6305039478318694 / 2^53 is the double 0.7
TwiceSeventyPlusOne == <<7389, 5663, 789, 2610, 1>>

RECURSIVE MulSmall(_, _, _)
MulSmall(limbs, k, carry) ==
    IF limbs = <<>>
    THEN IF carry = 0 THEN <<>> ELSE <<carry>>
    ELSE LET v == limbs[1] * k + carry
         IN <<v % Base>> \o MulSmall(Tail(limbs), k, v \div Base)

RECURSIVE Normalize(_)
Normalize(limbs) ==
    IF limbs # <<>> /\ limbs[Len(limbs)] = 0
    THEN Normalize(SubSeq(limbs, 1, Len(limbs) - 1))
    ELSE limbs

\* a > b; x and y are bound once to the normalized limbs
BigGreater(a, b) ==
    \E x \in {Normalize(a)}, y \in {Normalize(b)} :
        \/ Len(x) > Len(y)
        \/ /\ Len(x) = Len(y)
           /\ \E i \in 1..Len(x) :
                  /\ x[i] > y[i]
                  /\ \A j \in (i + 1)..Len(x) : x[j] = y[j]

\* 2 * 6305039478318694 - 1
TwiceSeventyMinusOne == <<7387, 5663, 789, 2610, 1>>

\* the comparison written with >= instead of >
QuotientAboveSeventy_ge(text_count, total_count) ==
    ~BigGreater(MulSmall(TwiceSeventyMinusOne, total_count, 0),
                MulSmall(Pow2_54, text_count, 0))

\* text_count / total_count > 0.7 in IEEE double arithmetic: the quotient is
\* rounded to nearest (ties to even) and compared with the double 0.7, so it
\* is greater iff text_count / total_count lies above the midpoint between
\* the double 0.7 and the next double: text_count * 2^54 > total_count *
\* (2 * 6305039478318694 + 1)
QuotientAboveSeventy(text_count, total_count) ==
    BigGreater(MulSmall(Pow2_54, text_count, 0),
               MulSmall(TwiceSeventyPlusOne, total_count, 0))

text_count(sh, row, min_col, max_col) ==
    Cardinality({col \in min_col..max_col : CellValue(sh, row, col) = "str"})

\* the count of all the columns of the range
total_count_of_columns(sh, row, min_col, max_col) == max_col - min_col + 1

\* lines 249-253
total_count(sh, row, min_col, max_col) ==
    Cardinality({col \in min_col..max_col : CellValue(sh, row, col) # NoValue})

_detect_header_row(sh, row, min_col, max_col) ==
    \E texts \in {text_count(sh, row, min_col, max_col)},
       total \in {total_count(sh, row, min_col, max_col)} :
        IF total > 0 THEN QuotientAboveSeventy(texts, total) ELSE FALSE

(***************************************************************************)
(* detect_table_structure and _find_continuous_region                      *)
(***************************************************************************)
Deltas == <<-2, -1, 0, 1, 2>>

\* the neighbourhood with offsets -1..1 instead of -2..2
Neighbours_radius1(row, col, region_visited) ==
    LET all == [i \in 1..9 |-> <<row + ((i - 1) \div 3) - 1,
                                 col + ((i - 1) % 3) - 1>>]
        Keep(p) == /\ p # <<row, col>>
                   /\ p[1] > 0
                   /\ p[2] > 0
                   /\ p \notin region_visited
    IN SelectSeq(all, Keep)

\* lines 206-213: the neighbours appended to the queue, in loop order
Neighbours(row, col, region_visited) ==
    LET all == [i \in 1..25 |-> <<row + Deltas[((i - 1) \div 5) + 1],
                                  col + Deltas[((i - 1) % 5) + 1]>>]
        Keep(p) == /\ p # <<row, col>>
                   /\ p[1] > 0
                   /\ p[2] > 0
                   /\ p \notin region_visited
    IN SelectSeq(all, Keep)

\* lines 176-182
StartRegion(start_row, start_col) ==
    [min_row |-> start_row, max_row |-> start_row,
     min_col |-> start_col, max_col |-> start_col,
     cells_in_region |-> <<>>,
     queue |-> <<<<start_row, start_col>>>>,
     region_visited |-> {}]

IdleRegion ==
    [min_row |-> 0, max_row |-> 0, min_col |-> 0, max_col |-> 0,
     cells_in_region |-> <<>>, queue |-> <<>>, region_visited |-> {}]

\* the bounds update without the min_col line
UpdateBounds_no_min_col(r, row, col) ==
    [r EXCEPT !.min_row = Min(r.min_row, row),
              !.max_row = Max(r.max_row, row),
              !.max_col = Max(r.max_col, col)]

\* lines 200-203
UpdateBounds(r, row, col) ==
    [r EXCEPT !.min_row = Min(r.min_row, row),
              !.max_row = Max(r.max_row, row),
              !.min_col = Min(r.min_col, col),
              !.max_col = Max(r.max_col, col)]

\* the popped entry is skipped only when its cell is empty
Expandable_revisits(sh, r, p) == CellValue(sh, p[1], p[2]) # NoValue

\* lines 186-190: the popped entry is not skipped
Expandable(sh, r, p) ==
    p \notin r.region_visited /\ CellValue(sh, p[1], p[2]) # NoValue

\* lines 191-213 for the popped cell (row, col); rest is the queue after pop
VisitCell(sh, r, row, col, rest) ==
    LET rv == r.region_visited \cup {<<row, col>>}
        b == UpdateBounds(r, row, col)
    IN [b EXCEPT
          !.region_visited = rv,
          !.cells_in_region = Append(r.cells_in_region,
                                     [row |-> row, col |-> col,
                                      value |-> CellValue(sh, row, col),
                                      coordinate |-> Coordinate(row, col)]),
          !.queue = rest \o Neighbours(row, col, rv)]

\* lines 215-231; has_header is bound once to the result of line 217
RegionResult(sh, r) ==
    CHOOSE table \in
        {[bounds |-> [min_row |-> r.min_row, max_row |-> r.max_row,
                      min_col |-> r.min_col, max_col |-> r.max_col],
          cell_count |-> Len(r.cells_in_region),
          cells |-> r.cells_in_region,
          has_header |-> has_header,
          header_row |-> IF has_header THEN Some(r.min_row) ELSE None,
          type |-> IF has_header THEN "table" ELSE "data_region"] :
            has_header \in
                {_detect_header_row(sh, r.min_row, r.min_col, r.max_col)}} :
        TRUE

\* the threshold written as more than two cells
IsReported_gt2(table) == table.cell_count > 2

\* the threshold written as at least one cell
IsReported_ge1(table) == table.cell_count >= 1

\* line 158
IsReported(table) == table.cell_count > 1

\* line 155: the cell p starts a region
StartsRegion(sh, vis, p) ==
    CellValue(sh, p[1], p[2]) # NoValue /\ Coordinate(p[1], p[2]) \notin vis

(***************************************************************************)
(* Values of the variables a method does not use                           *)
(***************************************************************************)
IdleHdr == [row |-> 0, min_col |-> 0, max_col |-> 0, result |-> FALSE]
IdleSheetData ==
    [cells |-> <<>>, merged |-> <<>>, tables |-> <<>>,
     print_area |-> None, data_bounds |-> None,
     internal |-> [tables_detail |-> <<>>, print_area_bounds |-> None]]
IdleCfg ==
    [use_print_area |-> TRUE, print_area |-> None,
     rows_per_page |-> 0, cols_per_page |-> 0, overlap |-> 0]
IdleFmt ==
    [cell |-> [kind |-> "none", num |-> 0, exp |-> 0, text |-> <<>>,
               number_format |-> <<>>],
     result |-> None]

(***************************************************************************)
(* Region detection on a sheet: detect_table_structure(sheet)              *)
(***************************************************************************)
Grid == (1..GridRows) \X (1..GridCols)

RECURSIVE SubsetsUpTo(_, _)
SubsetsUpTo(S, k) ==
    IF k = 0 THEN {{}}
    ELSE LET smaller == SubsetsUpTo(S, k - 1)
         IN smaller \cup {T \cup {x} : T \in smaller, x \in S}

InitDetect ==
    /\ \E S \in SubsetsUpTo(Grid, MaxCells) :
          \E first_kind \in Kinds, other_kind \in Kinds :
             sheet = [p \in Grid |->
                         IF p \notin S THEN NoValue
                         ELSE IF p[1] = 1 THEN first_kind ELSE other_kind]
    /\ pc = "scan"
    /\ visited = {}
    /\ tables = <<>>
    /\ scan_pos = <<0, 0>>
    /\ region = IdleRegion
    /\ hdr = IdleHdr
    /\ sheet_data = IdleSheetData
    /\ cfg = IdleCfg
    /\ pages_data = <<>>
    /\ page_log = <<>>
    /\ table_data = <<>>
    /\ fmt = IdleFmt
    /\ export_data = None

\* the cells the scan has still to reach that start a region (line 155)
Starts(sh, vis, pos) ==
    {p \in DOMAIN sh : RowMajorLess(pos, p) /\ StartsRegion(sh, vis, p)}

\* lines 153-157: the scan reaches the next non-empty cell that is not
\* visited and calls _find_continuous_region on it
FindRegion ==
    /\ pc = "scan"
    /\ Starts(sheet, visited, scan_pos) # {}
    /\ LET starts == Starts(sheet, visited, scan_pos)
           cell == CHOOSE p \in starts : \A q \in starts : ~RowMajorLess(q, p)
       IN /\ scan_pos' = cell
          /\ region' = StartRegion(cell[1], cell[2])
    /\ pc' = "bfs"
    /\ UNCHANGED <<sheet, visited, tables, hdr, sheet_data, cfg,
                   pages_data, page_log, table_data, fmt,
                   export_data>>

\* lines 184-213: the loop pops entries up to and including the next one
\* that is a non-empty cell not yet in region_visited, and expands it
BfsVisit ==
    /\ pc = "bfs"
    /\ \E i \in 1..Len(region.queue) :
          /\ Expandable(sheet, region, region.queue[i])
          /\ \A j \in 1..(i - 1) : ~Expandable(sheet, region, region.queue[j])
          /\ LET p == region.queue[i]
                 rest == SubSeq(region.queue, i + 1, Len(region.queue))
             IN /\ region' = VisitCell(sheet, region, p[1], p[2], rest)
                /\ visited' = visited \cup {Coordinate(p[1], p[2])}
    /\ UNCHANGED <<pc, sheet, tables, scan_pos, hdr, sheet_data, cfg,
                   pages_data, page_log, table_data, fmt,
                   export_data>>

\* lines 184-187, 215-231 and 158-159: the remaining entries are all skipped,
\* the region is returned and appended when it has more than one cell
RegionReturn ==
    /\ pc = "bfs"
    /\ \A i \in 1..Len(region.queue) :
          ~Expandable(sheet, region, region.queue[i])
    /\ \E table \in {RegionResult(sheet, region)} :
          tables' = IF IsReported(table) THEN Append(tables, table) ELSE tables
    /\ region' = IdleRegion
    /\ pc' = "scan"
    /\ UNCHANGED <<sheet, visited, scan_pos, hdr, sheet_data, cfg,
                   pages_data, page_log, table_data, fmt,
                   export_data>>

\* line 161
DetectReturn ==
    /\ pc = "scan"
    /\ Starts(sheet, visited, scan_pos) = {}
    /\ pc' = "detected"
    /\ UNCHANGED <<sheet, visited, tables, scan_pos, region, hdr, sheet_data,
                   cfg, pages_data, page_log, table_data, fmt, export_data>>

NextDetect == FindRegion \/ BfsVisit \/ RegionReturn \/ DetectReturn

SpecDetect == InitDetect /\ [][NextDetect]_vars

(***************************************************************************)
(* Properties of region detection                                          *)
(***************************************************************************)
Abs(x) == IF x < 0 THEN -x ELSE x
\* two different cells at most 2 rows and 2 columns apart
Adjacent(p, q) == p # q /\ Abs(p[1] - q[1]) <= 2 /\ Abs(p[2] - q[2]) <= 2

Members(table) == {<<table.cells[j].row, table.cells[j].col>> :
                      j \in 1..Len(table.cells)}

\* number of entries of reported cell lists that are the cell p
Occurrences(p) ==
    Cardinality({ij \in (1..Len(tables)) \X (1..Cardinality(DOMAIN sheet)) :
                    /\ ij[2] <= Len(tables[ij[1]].cells)
                    /\ tables[ij[1]].cells[ij[2]].row = p[1]
                    /\ tables[ij[1]].cells[ij[2]].col = p[2]})

HasNeighbour(p) == \E q \in NonEmpty(sheet) : Adjacent(p, q)

\* C1: after detect_table_structure has scanned the grid, every non-empty
\* cell is in the cell list of exactly one reported region, or in none and
\* then it has no other non-empty cell within 2 rows and 2 columns; no cell
\* is in two reported regions
C1_Partition ==
    pc = "detected" =>
        \A p \in NonEmpty(sheet) :
            \/ Occurrences(p) = 1
            \/ Occurrences(p) = 0 /\ ~HasNeighbour(p)

C1_Witness ==
    /\ pc = "detected"
    /\ Len(tables) >= 1
    /\ \E p \in NonEmpty(sheet) : Occurrences(p) = 0
    /\ \E p \in NonEmpty(sheet) : Occurrences(p) = 1

\* _find_continuous_region is about to return
RegionComplete ==
    /\ pc = "bfs"
    /\ \A i \in 1..Len(region.queue) :
          ~Expandable(sheet, region, region.queue[i])

TightBounds(table) ==
    LET b == table.bounds
        m == Members(table)
    IN /\ \A p \in m : /\ b.min_row <= p[1] /\ p[1] <= b.max_row
                        /\ b.min_col <= p[2] /\ p[2] <= b.max_col
       /\ \E p \in m : p[1] = b.min_row
       /\ \E p \in m : p[1] = b.max_row
       /\ \E p \in m : p[2] = b.min_col
       /\ \E p \in m : p[2] = b.max_col

\* C2: every region returned by _find_continuous_region has all its member
\* cells inside its bounds, and each of the four bounds is the row or the
\* column of some member cell
C2_TightBounds ==
    /\ RegionComplete => TightBounds(RegionResult(sheet, region))
    /\ \A i \in 1..Len(tables) : TightBounds(tables[i])

\* a returned region of three cells, one of them left of the start cell
C2_Witness ==
    /\ RegionComplete
    /\ Len(region.cells_in_region) = 3
    /\ region.min_col < region.cells_in_region[1].col
    /\ region.min_row < region.max_row

\* the cells of S linked to the cells of R by a chain of adjacent cells of S
RECURSIVE Closure(_, _)
Closure(S, R) ==
    LET more == {q \in S \ R : \E p \in R : Adjacent(p, q)}
    IN IF more = {} THEN R ELSE Closure(S, R \cup more)

HdrRow == 1

InitHeader ==
    /\ sheet \in [{HdrRow} \X (1..HdrCols) -> Kinds \cup {NoValue}]
    /\ pc = "header"
    /\ visited = {}
    /\ tables = <<>>
    /\ scan_pos = <<0, 0>>
    /\ region = IdleRegion
    /\ hdr = IdleHdr
    /\ sheet_data = IdleSheetData
    /\ cfg = IdleCfg
    /\ pages_data = <<>>
    /\ page_log = <<>>
    /\ table_data = <<>>
    /\ fmt = IdleFmt
    /\ export_data = None

\* lines 247-258
DetectHeaderRow ==
    /\ pc = "header"
    /\ \E max_col \in (HdrCols - 1)..HdrCols :
          hdr' = [row |-> HdrRow, min_col |-> 1, max_col |-> max_col,
                  result |-> _detect_header_row(sheet, HdrRow, 1, max_col)]
    /\ pc' = "header_done"
    /\ UNCHANGED <<sheet, visited, tables, scan_pos, region, sheet_data, cfg,
                   pages_data, page_log, table_data, fmt,
                   export_data>>

NextHeader == DetectHeaderRow

SpecHeader == InitHeader /\ [][NextHeader]_vars

TextCells == {c \in hdr.min_col..hdr.max_col : sheet[<<hdr.row, c>>] = "str"}
FilledCells == {c \in hdr.min_col..hdr.max_col : sheet[<<hdr.row, c>>] # NoValue}

RECURSIVE RowMajorSeq(_)
RowMajorSeq(S) ==
    IF S = {} THEN <<>>
    ELSE LET first == CHOOSE p \in S : \A q \in S : ~RowMajorLess(q, p)
         IN <<first>> \o RowMajorSeq(S \ {first})

\* s.replace('$', '')
Remove(s, ch) == LET Keep(c) == c # ch IN SelectSeq(s, Keep)

Contains(s, ch) == Find(s, ch, 1) # 0

\* lines 287-289
StripPrintArea(pa) ==
    LET parts == Split(pa, "!")
        last == IF Contains(pa, "!") THEN parts[Len(parts)] ELSE pa
    IN Remove(last, "$")

\* lines 292-304: print_area_bounds, or None
PrintAreaBounds(pa) ==
    IF ~Contains(pa, ":") THEN None
    ELSE LET range_parts == Split(pa, ":")
             start_match == MatchCoord(range_parts[1])
             end_match == MatchCoord(range_parts[2])
         IN IF start_match = None \/ end_match = None THEN None
            ELSE Some([min_row |-> int(start_match[1].digits),
                       max_row |-> int(end_match[1].digits),
                       min_col |-> column_index_from_string(start_match[1].letters),
                       max_col |-> column_index_from_string(end_match[1].letters)])

\* lines 330-333: the cell is kept
InPrintArea(bounds, p) ==
    \/ bounds = None
    \/ /\ bounds[1].min_row <= p[1] /\ p[1] <= bounds[1].max_row
       /\ bounds[1].min_col <= p[2] /\ p[2] <= bounds[1].max_col

\* the bounds updated before the print-area test, for every non-empty cell
BoundedCells_all(sh, kept) == NonEmpty(sh)

\* lines 328-342: the cells that reach the update of the data range are the
\* cells that are kept
BoundedCells(sh, kept) == kept

\* lines 281-353
ExtractSheet(sh, config) ==
    LET used == config.use_print_area /\ config.print_area # None
               /\ config.print_area # Some(<<>>)
        pa == IF used THEN Some(StripPrintArea(config.print_area[1])) ELSE None
        print_area_bounds == IF used THEN PrintAreaBounds(pa[1]) ELSE None
        kept == {p \in NonEmpty(sh) : InPrintArea(print_area_bounds, p)}
        order == RowMajorSeq(kept)
        seen == BoundedCells(sh, kept)
        min_row == CHOOSE r \in {p[1] : p \in seen} : \A q \in seen : r <= q[1]
        max_row == CHOOSE r \in {p[1] : p \in seen} : \A q \in seen : r >= q[1]
        min_col == CHOOSE c \in {p[2] : p \in seen} : \A q \in seen : c <= q[2]
        max_col == CHOOSE c \in {p[2] : p \in seen} : \A q \in seen : c >= q[2]
    IN [cells |-> [i \in 1..Len(order) |->
                      [key |-> Coordinate(order[i][1], order[i][2]),
                       value |-> sh[order[i]]]],
        merged |-> <<>>,
        tables |-> <<>>,
        print_area |-> pa,
        data_bounds |->
            IF kept = {} THEN None
            ELSE Some([min_row |-> min_row, max_row |-> max_row,
                       min_col |-> min_col, max_col |-> max_col,
                       range |-> RangeString(min_row, min_col, max_row, max_col)]),
        internal |-> [tables_detail |-> <<>>,
                      print_area_bounds |-> print_area_bounds]]

(***************************************************************************)
(* _extract_table_data                                                     *)
(***************************************************************************)
\* range(lo, hi + 1) as a list
Range(lo, hi) == [i \in 1..Max(hi - lo + 1, 0) |-> lo + i - 1]

\* the header list with an entry for every column, empty cells too
HeaderColumns_all(sh, bounds) == Range(bounds.min_col, bounds.max_col)

\* lines 387-389: the columns of the header cells, in loop order
HeaderColumns(sh, bounds) ==
    LET Filled(col) == CellValue(sh, bounds.min_row, col) # NoValue
    IN SelectSeq(Range(bounds.min_col, bounds.max_col), Filled)

\* lines 386-394; the text of a value is represented by the kind of the value
Headers(sh, table_info) ==
    IF table_info.has_header
    THEN LET cols == HeaderColumns(sh, table_info.bounds)
         IN [i \in 1..Len(cols) |->
                [value |-> CellValue(sh, table_info.bounds.min_row, cols[i]),
                 column |-> get_column_letter(cols[i]),
                 column_index |-> cols[i]]]
    ELSE <<>>

\* the data rows start at the first row also when it is the header
StartRow_with_header(table_info) == table_info.bounds.min_row

\* line 397
StartRow(table_info) ==
    IF table_info.has_header THEN table_info.bounds.min_row + 1
    ELSE table_info.bounds.min_row

\* lines 402-422: row_data of the row row_idx; type(cell.value).__name__ is
\* the kind of the value. formatted_value (line 412) is left out: it is a
\* function of the value and the number format of the cell, which the kinds
\* do not hold
RowData(sh, bounds, row_idx) ==
    LET Filled(col) == CellValue(sh, row_idx, col) # NoValue
        cols == SelectSeq(Range(bounds.min_col, bounds.max_col), Filled)
    IN [i \in 1..Len(cols) |->
           [row |-> row_idx,
            column |-> cols[i],
            value |-> CellValue(sh, row_idx, cols[i]),
            type |-> CellValue(sh, row_idx, cols[i]),
            coordinate |-> Coordinate(row_idx, cols[i])]]

\* every row gets a record
HasData_always(row_data) == TRUE

\* lines 400, 422 and 425: has_data after the loop over the columns
HasData(row_data) == Len(row_data) > 0

\* lines 398-429
DataRows(sh, table_info) ==
    LET rows == Range(StartRow(table_info), table_info.bounds.max_row)
        all == [i \in 1..Len(rows) |->
                   [row_index |-> rows[i],
                    cells |-> RowData(sh, table_info.bounds, rows[i])]]
        Kept(record) == HasData(record.cells)
    IN SelectSeq(all, Kept)

\* d.get(key, default) on a dict kept as a list of entries
DictGet(d, key, default) ==
    IF \E i \in 1..Len(d) : d[i].key = key
    THEN d[CHOOSE i \in 1..Len(d) : d[i].key = key].value
    ELSE default

\* lines 417-418 over the cells of the rows from the i-th on
RECURSIVE DataTypes(_, _, _)
DataTypes(data, i, counts) ==
    IF i > Len(data) THEN counts
    ELSE LET CountRow[j \in 0..Len(data[i].cells)] ==
                 IF j = 0 THEN counts
                 ELSE DictSet(CountRow[j - 1], data[i].cells[j].type,
                              DictGet(CountRow[j - 1],
                                      data[i].cells[j].type, 0) + 1)
         IN DataTypes(data, i + 1, CountRow[Len(data[i].cells)])

\* line 419 over all rows
RECURSIVE CellTotal(_, _)
CellTotal(data, i) ==
    IF i > Len(data) THEN 0 ELSE Len(data[i].cells) + CellTotal(data, i + 1)

\* the comparison written with >= instead of >
Alignment_ge(headers, data) ==
    IF Len(headers) > 0
    THEN IF Len(data) >= Len(headers) THEN "vertical" ELSE "horizontal"
    ELSE "unknown"

\* lines 381 and 431-436
Alignment(headers, data) ==
    IF Len(headers) > 0
    THEN IF Len(data) > Len(headers) THEN "vertical" ELSE "horizontal"
    ELSE "unknown"

\* lines 374-438
_extract_table_data(sh, table_info) ==
    LET headers == Headers(sh, table_info)
        data == DataRows(sh, table_info)
    IN [bounds |-> table_info.bounds,
        has_header |-> table_info.has_header,
        data |-> data,
        headers |-> headers,
        data_types |-> DataTypes(data, 1, <<>>),
        alignment |-> Alignment(headers, data),
        non_empty_cells_count |-> CellTotal(data, 1)]

(***************************************************************************)
(* create_paged_visualizations_with_data                                   *)
(***************************************************************************)
\* the page count rounded down
PageCount_floor(lo, hi, per_page) == (hi - lo + 1) \div per_page

\* one page more than the quotient, also when the division is exact
PageCount_extra(lo, hi, per_page) == ((hi - lo + 1) \div per_page) + 1

\* lines 598-599
PageCount(lo, hi, per_page) == ((hi - lo + 1) + per_page - 1) \div per_page

num_row_pages(b, config) == PageCount(b.min_row, b.max_row, config.rows_per_page)
num_col_pages(b, config) == PageCount(b.min_col, b.max_col, config.cols_per_page)

\* the tile origin computed with a stride one short
PageMin_short_stride(lo, tile, per_page) == lo + tile * (per_page - 1)

\* lines 610 and 612
PageMin(lo, tile, per_page) == lo + tile * per_page

\* lines 611 and 613
CoreMax(page_min, per_page, hi) == Min(page_min + per_page - 1, hi)

\* the overlap added without the clamp to the data bounds
WithOverlap_unclamped(core_max, tile, num_pages, overlap, hi) ==
    IF tile < num_pages - 1 THEN core_max + overlap ELSE core_max

\* no overlap added
WithOverlap_none(core_max, tile, num_pages, overlap, hi) == core_max

\* the overlap one row or column short
WithOverlap_one_short(core_max, tile, num_pages, overlap, hi) ==
    IF tile < num_pages - 1 THEN Min(core_max + overlap - 1, hi) ELSE core_max

\* the overlap one row or column long
WithOverlap_one_more(core_max, tile, num_pages, overlap, hi) ==
    IF tile < num_pages - 1 THEN Min(core_max + overlap + 1, hi) ELSE core_max

\* lines 616-619
WithOverlap(core_max, tile, num_pages, overlap, hi) ==
    IF tile < num_pages - 1 THEN Min(core_max + overlap, hi) ELSE core_max

\* lines 610-613: the rectangle of the page before the overlap is added
CoreRect(b, config, row_page, col_page) ==
    LET page_min_row == PageMin(b.min_row, row_page, config.rows_per_page)
        page_min_col == PageMin(b.min_col, col_page, config.cols_per_page)
    IN [min_row |-> page_min_row,
        max_row |-> CoreMax(page_min_row, config.rows_per_page, b.max_row),
        min_col |-> page_min_col,
        max_col |-> CoreMax(page_min_col, config.cols_per_page, b.max_col)]

\* lines 610-619: the rectangle of the page
PageRect(b, config, row_page, col_page) ==
    LET core == CoreRect(b, config, row_page, col_page)
    IN [core EXCEPT
          !.max_row = WithOverlap(core.max_row, row_page,
                                  num_row_pages(b, config), config.overlap,
                                  b.max_row),
          !.max_col = WithOverlap(core.max_col, col_page,
                                  num_col_pages(b, config), config.overlap,
                                  b.max_col)]

\* the cell test with the last row of the page left out
CellOnPage_strict(coord, page) ==
    LET match == MatchCoord(coord)
    IN /\ match # None
       /\ LET col == column_index_from_string(match[1].letters)
              row == int(match[1].digits)
          IN /\ page.min_row <= row /\ row < page.max_row
             /\ page.min_col <= col /\ col <= page.max_col

\* lines 629-633: the cell with key coord is on the page
CellOnPage(coord, page) ==
    LET match == MatchCoord(coord)
    IN /\ match # None
       /\ LET col == column_index_from_string(match[1].letters)
              row == int(match[1].digits)
          IN /\ page.min_row <= row /\ row <= page.max_row
             /\ page.min_col <= col /\ col <= page.max_col

\* the test that keeps only the objects that lie wholly on the page
Intersects_contained(min_row, max_row, min_col, max_col, page) ==
    /\ page.min_row <= min_row /\ max_row <= page.max_row
    /\ page.min_col <= min_col /\ max_col <= page.max_col

\* lines 650-651 and 664-665
Intersects(min_row, max_row, min_col, max_col, page) ==
    /\ min_row <= page.max_row /\ max_row >= page.min_row
    /\ min_col <= page.max_col /\ max_col >= page.min_col

\* lines 639-652: the table is on the page
TableOnPage(table, page) ==
    LET range_parts == Split(table.range, ":")
    IN /\ Len(range_parts) = 2
       /\ LET start_match == MatchCoord(range_parts[1])
              end_match == MatchCoord(range_parts[2])
          IN /\ start_match # None
             /\ end_match # None
             /\ Intersects(int(start_match[1].digits),
                           int(end_match[1].digits),
                           column_index_from_string(start_match[1].letters),
                           column_index_from_string(end_match[1].letters),
                           page)

\* re.match(r'([A-Z]+)(\d+):([A-Z]+)(\d+)', s): None, or the four groups
MatchRange(s) ==
    LET first == MatchCoord(s)
    IN IF first = None THEN None
       ELSE IF first[1].end >= Len(s) \/ s[first[1].end + 1] # ":" THEN None
       ELSE LET second == MatchCoord(SubSeq(s, first[1].end + 2, Len(s)))
            IN IF second = None THEN None
               ELSE Some(<<first[1].letters, first[1].digits,
                           second[1].letters, second[1].digits>>)

\* lines 657-666: the merged region is on the page
MergedOnPage(merged, page) ==
    LET range_match == MatchRange(merged.range)
    IN /\ range_match # None
       /\ Intersects(int(range_match[1][2]), int(range_match[1][4]),
                     column_index_from_string(range_match[1][1]),
                     column_index_from_string(range_match[1][3]),
                     page)

\* f"{n:03d}"
RECURSIVE ZeroPad(_, _)
ZeroPad(s, width) == IF Len(s) >= width THEN s ELSE ZeroPad(<<"0">> \o s, width)

\* line 686
PageKey(page_index) ==
    <<"p", "a", "g", "e", "_">> \o ZeroPad(str(page_index), 3)

\* the counts taken from the sheet instead of the page
PageStats_of_sheet(data, page_cells, page_tables, page_merged) ==
    [cell_count |-> Len(data.cells),
     table_count |-> Len(data.tables),
     merged_count |-> Len(data.merged)]

\* lines 693-697
PageStats(data, page_cells, page_tables, page_merged) ==
    [cell_count |-> Len(page_cells),
     table_count |-> Len(page_tables),
     merged_count |-> Len(page_merged)]

\* lines 621-666 and 687-698: the page of the rectangle page
PageData(data, page) ==
    LET IsCellOnPage(entry) == CellOnPage(entry.key, page)
        IsTableOnPage(table) == TableOnPage(table, page)
        IsMergedOnPage(merged) == MergedOnPage(merged, page)
        page_cells == SelectSeq(data.cells, IsCellOnPage)
        page_tables == SelectSeq(data.tables, IsTableOnPage)
        page_merged == SelectSeq(data.merged, IsMergedOnPage)
    IN [range |-> RangeString(page.min_row, page.min_col,
                              page.max_row, page.max_col),
        cells |-> page_cells,
        tables |-> page_tables,
        merged |-> page_merged,
        stats |-> PageStats(data, page_cells, page_tables, page_merged)]

\* lines 601-702: the pages made from tile (row_page, col_page) on, appended
\* to pages; page_index is the index of the last page made
RECURSIVE PagesFrom(_, _, _, _, _, _)
PagesFrom(data, config, row_page, col_page, page_index, pages) ==
    LET b == data.data_bounds[1]
    IN IF row_page >= num_row_pages(b, config) THEN pages
       ELSE IF col_page >= num_col_pages(b, config)
       THEN PagesFrom(data, config, row_page + 1, 0, page_index, pages)
       ELSE PagesFrom(data, config, row_page, col_page + 1, page_index + 1,
                      DictSet(pages, PageKey(page_index + 1),
                              PageData(data, PageRect(b, config, row_page,
                                                      col_page))))

\* a sheet without data bounds yields one page without content
create_paged_visualizations_with_data_blank_page(data, config) ==
    IF data.data_bounds = None
    THEN <<[key |-> PageKey(1),
            value |-> [range |-> <<>>, cells |-> <<>>, tables |-> <<>>,
                       merged |-> <<>>,
                       stats |-> [cell_count |-> 0, table_count |-> 0,
                                  merged_count |-> 0]]]>>
    ELSE PagesFrom(data, config, 0, 0, 0, <<>>)

\* lines 588-702
create_paged_visualizations_with_data(data, config) ==
    IF data.data_bounds = None THEN <<>>
    ELSE PagesFrom(data, config, 0, 0, 0, <<>>)

(***************************************************************************)
(* _create_page_visualization: the page coordinates of what is drawn       *)
(***************************************************************************)
\* the rectangle shifted to the page origin without the clip to the page
LocalRect_unclipped(bounds, page) ==
    [min_row |-> bounds.min_row - page.min_row,
     max_row |-> bounds.max_row - page.min_row,
     min_col |-> bounds.min_col - page.min_col,
     max_col |-> bounds.max_col - page.min_col]

\* lines 866-869 and 914-917
LocalRect(bounds, page) ==
    [min_row |-> Max(bounds.min_row, page.min_row) - page.min_row,
     max_row |-> Min(bounds.max_row, page.max_row) - page.min_row,
     min_col |-> Max(bounds.min_col, page.min_col) - page.min_col,
     max_col |-> Min(bounds.max_col, page.max_col) - page.min_col]

\* lines 835-836 and 856-869: sheet_data always has _internal.tables_detail
DrawnTables(data, page) ==
    LET OnPage(table) ==
            Intersects(table.bounds.min_row, table.bounds.max_row,
                       table.bounds.min_col, table.bounds.max_col, page)
        drawn == SelectSeq(data.internal.tables_detail, OnPage)
    IN [i \in 1..Len(drawn) |-> LocalRect(drawn[i].bounds, page)]

\* lines 898-917
DrawnMerged(data, page) ==
    LET OnPage(merged) == MergedOnPage(merged, page)
        drawn == SelectSeq(data.merged, OnPage)
    IN [i \in 1..Len(drawn) |->
           LET range_match == MatchRange(drawn[i].range)[1]
           IN LocalRect([min_row |-> int(range_match[2]),
                         max_row |-> int(range_match[4]),
                         min_col |-> column_index_from_string(range_match[1]),
                         max_col |-> column_index_from_string(range_match[3])],
                        page)]

\* lines 954-967: plot_row and plot_col of the cells drawn
DrawnCells(data, page) ==
    LET OnPage(entry) == CellOnPage(entry.key, page)
        drawn == SelectSeq(data.cells, OnPage)
    IN [i \in 1..Len(drawn) |->
           LET match == MatchCoord(drawn[i].key)[1]
           IN [plot_row |-> int(match.digits) - page.min_row,
               plot_col |-> column_index_from_string(match.letters)
                               - page.min_col]]

\* lines 808-809 and 855-967
PageDrawing(data, page) ==
    [num_rows |-> page.max_row - page.min_row + 1,
     num_cols |-> page.max_col - page.min_col + 1,
     tables |-> DrawnTables(data, page),
     merged |-> DrawnMerged(data, page),
     cells |-> DrawnCells(data, page)]

\* the rectangles of lines 610-619 and the drawing of lines 671-677, in the
\* order of the page loop
PageLog(data, config) ==
    IF data.data_bounds = None THEN <<>>
    ELSE LET b == data.data_bounds[1]
             cols == num_col_pages(b, config)
         IN [k \in 1..(num_row_pages(b, config) * cols) |->
                [row_page |-> (k - 1) \div cols,
                 col_page |-> (k - 1) % cols,
                 core |-> CoreRect(b, config, (k - 1) \div cols, (k - 1) % cols),
                 page |-> PageRect(b, config, (k - 1) \div cols, (k - 1) % cols),
                 drawing |-> PageDrawing(data,
                                         PageRect(b, config, (k - 1) \div cols,
                                                  (k - 1) % cols))]]

(***************************************************************************)
(* Extraction and pagination of one sheet                                  *)
(***************************************************************************)
\* the rectangles of rows x cols cells that tile the box b from row
\* b.min_row + offset on, row by row
Blocks(b, rows, cols, offset) ==
    LET first == b.min_row + offset
        nr == IF first > b.max_row THEN 0
              ELSE ((b.max_row - first) \div rows) + 1
        nc == ((b.max_col - b.min_col) \div cols) + 1
    IN [k \in 1..(nr * nc) |->
           [min_row |-> first + ((k - 1) \div nc) * rows,
            max_row |-> first + ((k - 1) \div nc) * rows + rows - 1,
            min_col |-> b.min_col + ((k - 1) % nc) * cols,
            max_col |-> b.min_col + ((k - 1) % nc) * cols + cols - 1]]

\* tables that tile the data bounds, cut at the bounds
SuppliedTables(b) ==
    LET blocks == Blocks(b, TableRows, TableCols, 0)
    IN [k \in 1..Len(blocks) |->
           [range |-> RangeString(blocks[k].min_row, blocks[k].min_col,
                                  Min(blocks[k].max_row, b.max_row),
                                  Min(blocks[k].max_col, b.max_col)),
            type |-> "table"]]

\* the bounds of those tables, as _internal.tables_detail holds them
SuppliedDetail(b) ==
    LET blocks == Blocks(b, TableRows, TableCols, 0)
    IN [k \in 1..Len(blocks) |->
           [bounds |-> [blocks[k] EXCEPT
                           !.max_row = Min(blocks[k].max_row, b.max_row),
                           !.max_col = Min(blocks[k].max_col, b.max_col)]]]

\* merged regions of TableCols x TableRows cells from the second row on
SuppliedMerged(b) ==
    LET blocks == Blocks(b, TableCols, TableRows, 1)
    IN [k \in 1..Len(blocks) |->
           [range |-> RangeString(blocks[k].min_row, blocks[k].min_col,
                                  blocks[k].max_row, blocks[k].max_col),
            value |-> "str"]]

\* the sheet's print area strings of the model
PrintAreas == {None, Some(<<"S", "!", "$", "A", "$", "2", ":", "$", "Z", "$", "9">>)}

\* top-left cell of the sheets of the model: column 25 is Y, so that the
\* columns of a sheet reach AA
Origin == <<1, 25>>

\* a sheet of h rows and w columns from Origin on. Staggered: row i has its
\* one cell in column i modulo w; else only two opposite corners have a value
BoxSheet(h, w, staggered) ==
    [p \in (Origin[1]..(Origin[1] + h - 1)) \X (Origin[2]..(Origin[2] + w - 1)) |->
        IF \/ staggered /\ p[2] - Origin[2] = (p[1] - Origin[1]) % w
           \/ ~staggered /\ p = Origin
           \/ ~staggered /\ p = <<Origin[1] + h - 1, Origin[2] + w - 1>>
        THEN (IF p[1] % 2 = 0 THEN "str" ELSE "int")
        ELSE NoValue]

InitPaginate ==
    /\ \E pa \in PrintAreas, rows_per_page \in 1..MaxRowsPerPage,
          cols_per_page \in 1..MaxColsPerPage, overlap \in 0..MaxOverlap :
          /\ cfg = [use_print_area |-> TRUE, print_area |-> pa,
                    rows_per_page |-> rows_per_page,
                    cols_per_page |-> cols_per_page,
                    overlap |-> overlap]
          /\ \E h \in 0..Min(MaxHeight, MaxRowTiles * rows_per_page),
                w \in 1..MaxWidth, staggered \in BOOLEAN :
                /\ h = 0 => (w = 1 /\ staggered)
                /\ sheet = BoxSheet(h, w, staggered)
    /\ pc = "extract"
    /\ visited = {}
    /\ tables = <<>>
    /\ scan_pos = <<0, 0>>
    /\ region = IdleRegion
    /\ hdr = IdleHdr
    /\ sheet_data = IdleSheetData
    /\ pages_data = <<>>
    /\ page_log = <<>>
    /\ table_data = <<>>
    /\ fmt = IdleFmt
    /\ export_data = None

\* lines 137-138 and 278-355
Extract ==
    /\ pc = "extract"
    /\ sheet_data' = ExtractSheet(sheet, cfg)
    /\ pc' = "extracted"
    /\ UNCHANGED <<sheet, visited, tables, scan_pos, region, hdr, cfg,
                   pages_data, page_log, table_data, fmt,
                   export_data>>

\* a caller stores tables, their bounds and merged regions in the sheet's data
\* before it asks for the pages (lines 637, 655 and 836 read them)
SupplyObjects ==
    /\ pc = "extracted"
    /\ sheet_data.data_bounds # None
    /\ sheet_data.tables = <<>>
    /\ sheet_data.merged = <<>>
    /\ sheet_data' =
          [sheet_data EXCEPT
              !.tables = SuppliedTables(sheet_data.data_bounds[1]),
              !.merged = SuppliedMerged(sheet_data.data_bounds[1]),
              !.internal.tables_detail =
                  SuppliedDetail(sheet_data.data_bounds[1])]
    /\ UNCHANGED <<pc, sheet, visited, tables, scan_pos, region, hdr, cfg,
                   pages_data, page_log, table_data, fmt,
                   export_data>>

\* lines 577-702
Paginate ==
    /\ pc = "extracted"
    /\ pages_data' = create_paged_visualizations_with_data(sheet_data, cfg)
    /\ page_log' = PageLog(sheet_data, cfg)
    /\ pc' = "paged"
    /\ UNCHANGED <<sheet, visited, tables, scan_pos, region, hdr, sheet_data,
                   cfg, table_data, fmt,
                   export_data>>

NextPaginate == Extract \/ SupplyObjects \/ Paginate

SpecPaginate == InitPaginate /\ [][NextPaginate]_vars

(***************************************************************************)
(* Properties of pagination                                                *)
(***************************************************************************)
\* the pages of a sheet that has data have been made
Paged == pc = "paged" /\ sheet_data.data_bounds # None

DataBounds == sheet_data.data_bounds[1]

\* least n with n * d >= x
Ceil(x, d) == CHOOSE n \in 0..x : n * d >= x /\ (n - 1) * d < x

RowTiles == Ceil(DataBounds.max_row - DataBounds.min_row + 1, cfg.rows_per_page)
ColTiles == Ceil(DataBounds.max_col - DataBounds.min_col + 1, cfg.cols_per_page)

\* the rectangle written in the range of the k-th page
RangeOf(k) ==
    LET m == MatchRange(pages_data[k].value.range)[1]
    IN [min_row |-> int(m[2]), max_row |-> int(m[4]),
        min_col |-> column_index_from_string(m[1]),
        max_col |-> column_index_from_string(m[3])]

InRect(row, col, rect) ==
    /\ rect.min_row <= row /\ row <= rect.max_row
    /\ rect.min_col <= col /\ col <= rect.max_col

\* C5: the rectangles of the pages before the overlap is added cover every
\* coordinate of the data bounding box exactly once
C5_CoresTile ==
    Paged =>
        LET b == DataBounds
        IN \A row \in b.min_row..b.max_row, col \in b.min_col..b.max_col :
              Cardinality({k \in 1..Len(page_log) :
                              InRect(row, col, page_log[k].core)}) = 1

C5_Witness ==
    /\ Paged
    /\ RowTiles >= 3
    /\ ColTiles >= 2
    /\ cfg.overlap > 0
    /\ (DataBounds.max_row - DataBounds.min_row + 1) % cfg.rows_per_page # 0
    /\ DataBounds.min_row > 1

\* C6: a page whose row-tile is not the last has max row = min(core max row
\* + overlap, data max row), a page of the last row-tile has max row = core
\* max row, and the min row of a page is the min row of its core; the same
\* for columns
C6_OverlapExtension ==
    Paged =>
        /\ Len(pages_data) = Len(page_log)
        /\ \A k \in 1..Len(page_log) :
              LET core == page_log[k].core
                  page == RangeOf(k)
                  last_row == \A j \in 1..Len(page_log) :
                                  page_log[j].core.min_row <= core.min_row
                  last_col == \A j \in 1..Len(page_log) :
                                  page_log[j].core.min_col <= core.min_col
              IN /\ page.min_row = core.min_row
                 /\ page.min_col = core.min_col
                 /\ page.max_row =
                       IF last_row THEN core.max_row
                       ELSE Min(core.max_row + cfg.overlap, DataBounds.max_row)
                 /\ page.max_col =
                       IF last_col THEN core.max_col
                       ELSE Min(core.max_col + cfg.overlap, DataBounds.max_col)

\* a page that is extended up to the data bounds and by less than overlap
C6_Witness ==
    /\ Paged
    /\ \E k \in 1..Len(page_log) :
          /\ RangeOf(k).max_row > page_log[k].core.max_row
          /\ RangeOf(k).max_row < page_log[k].core.max_row + cfg.overlap
          /\ RangeOf(k).max_col > page_log[k].core.max_col

\* rowsPerPage = 5, overlap = 2, data in rows 1-12, one column-tile
Scenario7 ==
    /\ Paged
    /\ cfg.rows_per_page = 5
    /\ cfg.overlap = 2
    /\ DataBounds.min_row = 1
    /\ DataBounds.max_row = 12
    /\ DataBounds.max_col - DataBounds.min_col + 1 <= cfg.cols_per_page

\* C7 as stated: the scenario yields page 1 with rows 1-7 and page 2 with
\* rows 6-12, page 2 is the last row-tile and is not extended, and rows 6-7
\* are in both pages
C7_AsStated ==
    Scenario7 =>
        /\ Len(pages_data) = 2
        /\ RangeOf(1).min_row = 1 /\ RangeOf(1).max_row = 7
        /\ RangeOf(2).min_row = 6 /\ RangeOf(2).max_row = 12
        /\ RangeOf(2).max_row = page_log[2].core.max_row
        /\ \A row \in 6..7 :
              /\ RangeOf(1).min_row <= row /\ row <= RangeOf(1).max_row
              /\ RangeOf(2).min_row <= row /\ row <= RangeOf(2).max_row

\* C7 amended: the scenario yields three pages, with rows 1-7, 6-12 and
\* 11-12; page 2 is not the last row-tile, its core is rows 6-10 and the
\* overlap extends it to row 12; page 3 is the last row-tile and is not
\* extended; rows 6-7 are in both page 1 and page 2
C7_ThreePages ==
    Scenario7 =>
        /\ Len(pages_data) = 3
        /\ RangeOf(1).min_row = 1 /\ RangeOf(1).max_row = 7
        /\ RangeOf(2).min_row = 6 /\ RangeOf(2).max_row = 12
        /\ RangeOf(3).min_row = 11 /\ RangeOf(3).max_row = 12
        /\ page_log[2].core.max_row = 10
        /\ page_log[3].core.max_row = 12
        /\ \A row \in 6..7 :
              /\ RangeOf(1).min_row <= row /\ row <= RangeOf(1).max_row
              /\ RangeOf(2).min_row <= row /\ row <= RangeOf(2).max_row

C7_Witness == Scenario7 /\ Len(sheet_data.cells) = 12

\* the key of the page with index n < 1000
KeyOf(n) ==
    <<"p", "a", "g", "e", "_", Digits[(n \div 100) + 1],
      Digits[((n \div 10) % 10) + 1], Digits[(n % 10) + 1]>>

\* C8: pagination of a box of height h and width w returns ceil(h /
\* rowsPerPage) * ceil(w / colsPerPage) pages; the page of row-tile i and
\* column-tile j is the entry number i * ceil(w / colsPerPage) + j + 1, its
\* key is "page_" and that number zero-padded to 3 digits, and the keys are
\* pairwise distinct
C8_PageIndex ==
    Paged =>
        /\ Len(pages_data) = RowTiles * ColTiles
        /\ \A i \in 0..(RowTiles - 1), j \in 0..(ColTiles - 1) :
              LET n == i * ColTiles + j + 1
              IN /\ pages_data[n].key = KeyOf(n)
                 /\ RangeOf(n).min_row
                       = DataBounds.min_row + i * cfg.rows_per_page
                 /\ RangeOf(n).min_col
                       = DataBounds.min_col + j * cfg.cols_per_page
        /\ \A m, n \in 1..Len(pages_data) :
              m # n => pages_data[m].key # pages_data[n].key

C8_Witness ==
    /\ Paged
    /\ RowTiles = 4
    /\ ColTiles = 3
    /\ Len(pages_data) >= 12

\* the cells of the sheet's cell map, as (row, column)
KeptCells ==
    LET keys == {sheet_data.cells[i].key : i \in 1..Len(sheet_data.cells)}
    IN {p \in NonEmpty(sheet) : Coordinate(p[1], p[2]) \in keys}

\* the entry of the cell p in a cell map
EntryOf(p) == [key |-> Coordinate(p[1], p[2]), value |-> sheet[p]]

HasCell(k, p) ==
    \E i \in 1..Len(pages_data[k].value.cells) :
        pages_data[k].value.cells[i] = EntryOf(p)

\* C9: a cell of the sheet's cell map is among the cells of a page, with its
\* value, iff its row and column lie in the rectangle of the page; every
\* cell of the cell map is on at least one page
C9_CellMembership ==
    Paged =>
        LET kept == KeptCells
        IN /\ Cardinality(kept) = Len(sheet_data.cells)
           /\ \A k \in 1..Len(pages_data) :
                 LET rect == RangeOf(k)
                     cells == pages_data[k].value.cells
                     entries == {cells[i] : i \in 1..Len(cells)}
                 IN /\ \A p \in kept :
                          EntryOf(p) \in entries <=> InRect(p[1], p[2], rect)
                    /\ Len(cells) = Cardinality(entries)
                    /\ entries \subseteq {EntryOf(p) : p \in kept}
           /\ \A p \in kept : \E k \in 1..Len(pages_data) : HasCell(k, p)

\* a cell of column AA in the overlap of two pages, and a page without it
C9_Witness ==
    /\ Paged
    /\ \E p \in KeptCells :
          /\ p[2] = 27
          /\ \E j, k \in 1..Len(pages_data) :
                j # k /\ HasCell(j, p) /\ HasCell(k, p)
          /\ \E k \in 1..Len(pages_data) : ~HasCell(k, p)

\* the rectangles of the supplied tables and merged regions
TableRects ==
    LET blocks == Blocks(DataBounds, TableRows, TableCols, 0)
    IN [i \in 1..Len(blocks) |->
           [blocks[i] EXCEPT
               !.max_row = Min(blocks[i].max_row, DataBounds.max_row),
               !.max_col = Min(blocks[i].max_col, DataBounds.max_col)]]

MergedRects == Blocks(DataBounds, TableCols, TableRows, 1)

RectsMeet(a, b) ==
    /\ a.min_row <= b.max_row /\ a.max_row >= b.min_row
    /\ a.min_col <= b.max_col /\ a.max_col >= b.min_col

\* C10: a supplied table or merged region is in the tables or merged list of
\* a page iff its rectangle intersects the rectangle of the page, and the
\* listed object is the supplied object, unchanged
C10_ObjectMembership ==
    (Paged /\ sheet_data.tables # <<>>) =>
        LET table_rects == TableRects
            merged_rects == MergedRects
            supplied_tables == sheet_data.tables
            supplied_merged == sheet_data.merged
        IN /\ Len(supplied_tables) = Len(table_rects)
           /\ Len(supplied_merged) = Len(merged_rects)
           /\ \A k \in 1..Len(pages_data) :
                 LET page == pages_data[k].value
                     rect == RangeOf(k)
                     page_tables == {page.tables[j] : j \in 1..Len(page.tables)}
                     page_merged == {page.merged[j] : j \in 1..Len(page.merged)}
                 IN /\ \A i \in 1..Len(table_rects) :
                          supplied_tables[i] \in page_tables
                              <=> RectsMeet(table_rects[i], rect)
                    /\ \A i \in 1..Len(merged_rects) :
                          supplied_merged[i] \in page_merged
                              <=> RectsMeet(merged_rects[i], rect)
                    /\ page_tables \subseteq
                          {supplied_tables[i] : i \in 1..Len(supplied_tables)}
                    /\ page_merged \subseteq
                          {supplied_merged[i] : i \in 1..Len(supplied_merged)}
                    /\ Len(page.tables) = Cardinality(page_tables)
                    /\ Len(page.merged) = Cardinality(page_merged)

\* a page with a table that sticks out of it, a table that misses it and a
\* merged region that sticks out of it
C10_Witness ==
    /\ Paged
    /\ sheet_data.tables # <<>>
    /\ \E k \in 1..Len(pages_data) :
          /\ \E i \in 1..Len(TableRects) :
                /\ RectsMeet(TableRects[i], RangeOf(k))
                /\ TableRects[i].max_row > RangeOf(k).max_row
          /\ \E i \in 1..Len(TableRects) :
                ~RectsMeet(TableRects[i], RangeOf(k))
          /\ \E i \in 1..Len(MergedRects) :
                /\ RectsMeet(MergedRects[i], RangeOf(k))
                /\ MergedRects[i].min_col < RangeOf(k).min_col

\* the rectangle inner lies inside the rectangle outer
Within(inner, outer) ==
    /\ outer.min_row <= inner.min_row /\ inner.max_row <= outer.max_row
    /\ outer.min_col <= inner.min_col /\ inner.max_col <= outer.max_col

\* the rectangle has cells in the cores of at least two pages
CrossesCores(rect) ==
    Cardinality({k \in 1..Len(page_log) : RectsMeet(rect, page_log[k].core)})
        >= 2

\* the rectangle lies inside the rectangle of some page
WholeOnSomePage(rect) == \E k \in 1..Len(pages_data) : Within(rect, RangeOf(k))

\* the page whose core holds the top-left cell of the rectangle
HomePage(rect) ==
    CHOOSE k \in 1..Len(page_log) :
        InRect(rect.min_row, rect.min_col, page_log[k].core)

\* C11 as stated: every table that lies inside the data bounding box and has
\* cells in the cores of two adjacent pages lies whole inside the rectangle
\* of at least one page
C11_AsStated ==
    (Paged /\ sheet_data.tables # <<>>) =>
        LET table_rects == TableRects
        IN \A i \in 1..Len(table_rects) :
              (Within(table_rects[i], DataBounds) /\ CrossesCores(table_rects[i]))
                  => WholeOnSomePage(table_rects[i])

\* C11 amended: a table that lies inside the data bounding box and has cells
\* in the cores of two adjacent pages lies whole inside the rectangle of some
\* page iff it reaches at most overlap rows below and at most overlap columns
\* right of the core that holds its top-left cell, and then the page of that
\* core is such a page
C11_WholeWithinOverlap ==
    (Paged /\ sheet_data.tables # <<>>) =>
        LET table_rects == TableRects
        IN \A i \in 1..Len(table_rects) :
              LET rect == table_rects[i]
                  home == HomePage(rect)
                  core == page_log[home].core
                  near == /\ rect.max_row <= core.max_row + cfg.overlap
                          /\ rect.max_col <= core.max_col + cfg.overlap
              IN (Within(rect, DataBounds) /\ CrossesCores(rect)) =>
                    /\ WholeOnSomePage(rect) <=> near
                    /\ near => Within(rect, RangeOf(home))

\* with a positive overlap, a table across two cores that is whole on a page
\* and another one that is whole on no page
C11_Witness ==
    /\ Paged
    /\ sheet_data.tables # <<>>
    /\ cfg.overlap > 0
    /\ \E i \in 1..Len(TableRects) :
          /\ CrossesCores(TableRects[i])
          /\ TableRects[i].max_row > page_log[HomePage(TableRects[i])].core.max_row
          /\ WholeOnSomePage(TableRects[i])
    /\ \E i \in 1..Len(TableRects) :
          /\ CrossesCores(TableRects[i])
          /\ ~WholeOnSomePage(TableRects[i])

\* the rows that lie in the rectangles of both pages j and k
SharedRows(j, k) ==
    {row \in DataBounds.min_row..DataBounds.max_row :
        /\ RangeOf(j).min_row <= row /\ row <= RangeOf(j).max_row
        /\ RangeOf(k).min_row <= row /\ row <= RangeOf(k).max_row}

SharedCols(j, k) ==
    {col \in DataBounds.min_col..DataBounds.max_col :
        /\ RangeOf(j).min_col <= col /\ col <= RangeOf(j).max_col
        /\ RangeOf(k).min_col <= col /\ col <= RangeOf(k).max_col}

\* page k is in the row-tile after the row-tile of page j, same column-tile
NextRowTile(j, k) ==
    /\ page_log[k].row_page = page_log[j].row_page + 1
    /\ page_log[k].col_page = page_log[j].col_page

NextColTile(j, k) ==
    /\ page_log[k].col_page = page_log[j].col_page + 1
    /\ page_log[k].row_page = page_log[j].row_page

\* C12 as stated: two pages in consecutive row-tiles of the same column-tile
\* have exactly overlap rows in common, and two pages in consecutive
\* column-tiles of the same row-tile have exactly overlap columns in common
C12_AsStated ==
    Paged =>
        \A j, k \in 1..Len(page_log) :
            /\ NextRowTile(j, k) => Cardinality(SharedRows(j, k)) = cfg.overlap
            /\ NextColTile(j, k) => Cardinality(SharedCols(j, k)) = cfg.overlap

\* C12 amended: two pages in consecutive row-tiles of the same column-tile
\* have min(overlap, number of data rows below the core of the earlier page)
\* rows in common; the same holds for the columns of pages in consecutive
\* column-tiles
C12_SharedBand ==
    Paged =>
        \A j, k \in 1..Len(page_log) :
            /\ NextRowTile(j, k) =>
                  Cardinality(SharedRows(j, k))
                      = Min(cfg.overlap,
                            DataBounds.max_row - page_log[j].core.max_row)
            /\ NextColTile(j, k) =>
                  Cardinality(SharedCols(j, k))
                      = Min(cfg.overlap,
                            DataBounds.max_col - page_log[j].core.max_col)

\* a pair of pages with overlap rows in common and a pair with fewer, and a
\* pair with a column in common
C12_Witness ==
    /\ Paged
    /\ cfg.overlap = 2
    /\ \E j, k \in 1..Len(page_log) :
          NextRowTile(j, k) /\ Cardinality(SharedRows(j, k)) = 2
    /\ \E j, k \in 1..Len(page_log) :
          NextRowTile(j, k) /\ Cardinality(SharedRows(j, k)) = 1
    /\ \E j, k \in 1..Len(page_log) :
          NextColTile(j, k) /\ Cardinality(SharedCols(j, k)) >= 1

\* C13: rows_per_page > 0, cols_per_page > 0 and overlap >= 0, and every
\* page has min row <= max row and min column <= max column and its
\* rectangle lies inside the data bounding box
C13_PageInsideData ==
    Paged =>
        /\ cfg.rows_per_page > 0 /\ cfg.cols_per_page > 0 /\ cfg.overlap >= 0
        /\ Len(pages_data) = Len(page_log)
        /\ \A k \in 1..Len(pages_data) :
              LET rect == RangeOf(k)
              IN /\ rect = page_log[k].page
                 /\ rect.min_row <= rect.max_row
                 /\ rect.min_col <= rect.max_col
                 /\ Within(rect, DataBounds)

\* a page off the top-left corner whose overlap is cut at the last row and
\* the last column of the data
C13_Witness ==
    /\ Paged
    /\ \E k \in 1..Len(pages_data) :
          /\ RangeOf(k).min_row > DataBounds.min_row
          /\ RangeOf(k).min_col > DataBounds.min_col
          /\ page_log[k].core.max_row < DataBounds.max_row
          /\ page_log[k].core.max_row + cfg.overlap > DataBounds.max_row
          /\ page_log[k].core.max_col < DataBounds.max_col
          /\ page_log[k].core.max_col + cfg.overlap > DataBounds.max_col

\* the rectangle lies in the grid of num_rows x num_cols cells of a page
InPageGrid(rect, drawing) ==
    /\ 0 <= rect.min_row /\ rect.min_row <= rect.max_row
    /\ rect.max_row <= drawing.num_rows - 1
    /\ 0 <= rect.min_col /\ rect.min_col <= rect.max_col
    /\ rect.max_col <= drawing.num_cols - 1

\* C28: on every page, each table and each merged region whose rectangle
\* intersects the page is drawn, with a page rectangle that satisfies
\* 0 <= min row <= max row <= num_rows - 1 and 0 <= min column <= max
\* column <= num_cols - 1, and every cell drawn has its page row in
\* 0..num_rows - 1 and its page column in 0..num_cols - 1
C28_PageLocal ==
    Paged =>
        \A k \in 1..Len(page_log) :
            LET drawing == page_log[k].drawing
                page == pages_data[k].value
            IN /\ drawing.num_rows = RangeOf(k).max_row - RangeOf(k).min_row + 1
               /\ drawing.num_cols = RangeOf(k).max_col - RangeOf(k).min_col + 1
               /\ Len(drawing.tables) = Len(page.tables)
               /\ Len(drawing.merged) = Len(page.merged)
               /\ Len(drawing.cells) = Len(page.cells)
               /\ \A i \in 1..Len(drawing.tables) :
                     InPageGrid(drawing.tables[i], drawing)
               /\ \A i \in 1..Len(drawing.merged) :
                     InPageGrid(drawing.merged[i], drawing)
               /\ \A i \in 1..Len(drawing.cells) :
                     /\ drawing.cells[i].plot_row \in 0..(drawing.num_rows - 1)
                     /\ drawing.cells[i].plot_col \in 0..(drawing.num_cols - 1)

\* a page with a table cut at its last row and a merged region cut at its
\* first column, and a cell in its last row
C28_Witness ==
    /\ Paged
    /\ sheet_data.tables # <<>>
    /\ \E k \in 1..Len(page_log) :
          /\ RangeOf(k).min_row > DataBounds.min_row
          /\ \E i \in 1..Len(TableRects) :
                /\ RectsMeet(TableRects[i], RangeOf(k))
                /\ TableRects[i].max_row > RangeOf(k).max_row
          /\ \E i \in 1..Len(MergedRects) :
                /\ RectsMeet(MergedRects[i], RangeOf(k))
                /\ MergedRects[i].min_col < RangeOf(k).min_col
          /\ \E i \in 1..Len(page_log[k].drawing.cells) :
                page_log[k].drawing.cells[i].plot_row
                    = page_log[k].drawing.num_rows - 1


(***************************************************************************)
(* Region detection, extraction and pagination of the same sheet           *)
(***************************************************************************)
\* a stored grid of h rows and w columns from Origin on whose cells all have
\* the value None
BlankSheet(h, w) ==
    [p \in (Origin[1]..(Origin[1] + h - 1)) \X (Origin[2]..(Origin[2] + w - 1))
        |-> NoValue]

\* the print area strings of the sheets: those of PrintAreas, one without a
\* colon and one whose end is no coordinate
SheetPrintAreas ==
    PrintAreas \cup {Some(<<"S", "!", "$", "A", "$", "2">>),
                     Some(<<"A", "2", ":", "9">>)}

InitSheet ==
    /\ \E pa \in SheetPrintAreas, rows_per_page \in 1..MaxRowsPerPage,
          cols_per_page \in 1..MaxColsPerPage, overlap \in 0..MaxOverlap :
          cfg = [use_print_area |-> TRUE, print_area |-> pa,
                 rows_per_page |-> rows_per_page,
                 cols_per_page |-> cols_per_page,
                 overlap |-> overlap]
    /\ \E h \in 0..GridRows, w \in 1..GridCols, staggered \in BOOLEAN :
          \/ sheet = BlankSheet(h, w)
          \/ h > 0 /\ sheet = BoxSheet(h, w, staggered)
    /\ pc = "scan"
    /\ visited = {}
    /\ tables = <<>>
    /\ scan_pos = <<0, 0>>
    /\ region = IdleRegion
    /\ hdr = IdleHdr
    /\ sheet_data = IdleSheetData
    /\ pages_data = <<>>
    /\ page_log = <<>>
    /\ table_data = <<>>
    /\ fmt = IdleFmt
    /\ export_data = None

\* after detect_table_structure has returned, the sheet is extracted
\* (lines 137-138)
StartExtract ==
    /\ pc = "detected"
    /\ pc' = "extract"
    /\ UNCHANGED <<sheet, visited, tables, scan_pos, region, hdr, sheet_data,
                   cfg, pages_data, page_log, table_data, fmt, export_data>>

\* line 558: the overlap of a call that passes none
DefaultOverlap == 2

\* lines 1358-1367: the paginated structure of a sheet
PagedExport(data, pages) ==
    [meta |-> [print_area |-> data.print_area,
               data_bounds |-> data.data_bounds,
               total_cells |-> Len(data.cells),
               total_tables |-> Len(data.tables),
               total_merged |-> Len(data.merged),
               page_count |-> Len(pages)],
     pages |-> pages]

\* lines 1370-1376: the flat structure of a sheet
FlatExport(data) ==
    [cells |-> data.cells, tables |-> data.tables, merged |-> data.merged,
     print_area |-> data.print_area, data_bounds |-> data.data_bounds]

\* lines 1334-1376: the result of the extraction of line 1334 is dropped, the
\* data the constructor stored are exported, and the pages are asked for
\* with no overlap argument
export_for_ai_processing(data, config, use_pagination, use_print_area) ==
    [use_pagination |-> use_pagination,
     use_print_area |-> use_print_area,
     sheet |->
        IF use_pagination
        THEN PagedExport(data,
                 create_paged_visualizations_with_data(
                     data, [config EXCEPT !.overlap = DefaultOverlap]))
        ELSE FlatExport(data)]

\* lines 1314-1376
Export ==
    /\ pc = "extracted"
    /\ \E use_pagination \in BOOLEAN, use_print_area \in BOOLEAN :
          export_data' = Some(export_for_ai_processing(sheet_data, cfg,
                                                       use_pagination,
                                                       use_print_area))
    /\ pc' = "exported"
    /\ UNCHANGED <<sheet, visited, tables, scan_pos, region, hdr, sheet_data,
                   cfg, pages_data, page_log, table_data, fmt>>

NextSheet == NextDetect \/ StartExtract \/ NextPaginate \/ Export

SpecSheet == InitSheet /\ [][NextSheet]_vars

\* C14: on a sheet with no non-empty cell, region detection returns an empty
\* list of regions, extraction records no cells and no data bounds, and
\* pagination returns an empty page mapping
C14_EmptySheet ==
    NonEmpty(sheet) = {} =>
        /\ pc \in {"detected", "extract", "extracted", "paged"}
              => tables = <<>> /\ visited = {}
        /\ pc \in {"extracted", "paged"}
              => sheet_data.data_bounds = None /\ sheet_data.cells = <<>>
        /\ pc = "paged" => pages_data = <<>> /\ page_log = <<>>

\* the three methods have returned on a stored grid of empty cells
C14_Witness ==
    /\ pc = "paged"
    /\ DOMAIN sheet # {}
    /\ NonEmpty(sheet) = {}
    /\ tables = <<>>
    /\ sheet_data.data_bounds = None
    /\ pages_data = <<>>

(***************************************************************************)
(* Termination of region detection                                         *)
(***************************************************************************)
\* the grids of the scans whose termination is checked
ScanRows == 2
ScanCols == 4
ScanCells == 3

ScanGrid == (1..ScanRows) \X (1..ScanCols)

\* a sheet of ScanRows x ScanCols cells of which at most ScanCells have a
\* value: text in the first row, integers below
InitScan ==
    /\ \E S \in SubsetsUpTo(ScanGrid, ScanCells) :
          sheet = [p \in ScanGrid |->
                      IF p \notin S THEN NoValue
                      ELSE IF p[1] = 1 THEN "str" ELSE "int"]
    /\ pc = "scan"
    /\ visited = {}
    /\ tables = <<>>
    /\ scan_pos = <<0, 0>>
    /\ region = IdleRegion
    /\ hdr = IdleHdr
    /\ sheet_data = IdleSheetData
    /\ cfg = IdleCfg
    /\ pages_data = <<>>
    /\ page_log = <<>>
    /\ table_data = <<>>
    /\ fmt = IdleFmt
    /\ export_data = None

\* a call that has started runs on: the loops of lines 153-159 and 184-213
\* take their next step
SpecScanFair == InitScan /\ [][NextDetect]_vars /\ WF_vars(NextDetect)

\* the step expands a cell: it appends the cell to cells_in_region and its
\* neighbours to the queue (lines 191-213)
Expands ==
    /\ pc = "bfs"
    /\ pc' = "bfs"
    /\ Len(region'.cells_in_region) = Len(region.cells_in_region) + 1

\* the cell that the step expands
Expanded == region'.cells_in_region[Len(region'.cells_in_region)]

\* C26: the breadth-first expansion of _find_continuous_region ends (a call
\* that is in its loop returns), detect_table_structure returns, and a step
\* that expands a cell expands one that no earlier step of the scan expanded
C26_Terminates ==
    /\ (pc = "bfs") ~> (pc = "scan")
    /\ <>(pc = "detected")
    /\ [][Expands => /\ Expanded.coordinate \notin visited
                     /\ <<Expanded.row, Expanded.col>>
                            \notin region.region_visited]_vars

\* the scan has returned after it expanded three cells of one region, each
\* of which was enqueued by the other two
C26_Witness ==
    /\ pc = "detected"
    /\ \E t \in 1..Len(tables) :
          /\ tables[t].cell_count = 3
          /\ tables[t].bounds.max_row - tables[t].bounds.min_row <= 2
          /\ tables[t].bounds.max_col - tables[t].bounds.min_col <= 2

(***************************************************************************)
(* The header test of a region whose top row has a cell of another region  *)
(***************************************************************************)
\* the grids with a stair of cells and cells apart from it
StairRows == 4
StairCols == 4

StairGrid == (1..StairRows) \X (1..StairCols)

\* the cells of a stair from the top-left corner down the first column and
\* along the last row, and the cells of the first row that are more than
\* two columns away from the first column
StairCells ==
    {<<1, 1>>, <<3, 1>>}
        \cup {<<StairRows, col>> : col \in 3..StairCols}
        \cup {<<1, col>> : col \in 4..StairCols}

\* a sheet with some of the cells of StairCells: the corner and the other
\* cells of the first row have a kind each, the cells below are integers
InitStair ==
    /\ \E S \in SUBSET StairCells, corner_kind \in Kinds, far_kind \in Kinds :
          sheet = [p \in StairGrid |->
                      IF p \notin S THEN NoValue
                      ELSE IF p = <<1, 1>> THEN corner_kind
                      ELSE IF p[1] = 1 THEN far_kind
                      ELSE "int"]
    /\ pc = "scan"
    /\ visited = {}
    /\ tables = <<>>
    /\ scan_pos = <<0, 0>>
    /\ region = IdleRegion
    /\ hdr = IdleHdr
    /\ sheet_data = IdleSheetData
    /\ cfg = IdleCfg
    /\ pages_data = <<>>
    /\ page_log = <<>>
    /\ table_data = <<>>
    /\ fmt = IdleFmt
    /\ export_data = None

SpecStair == InitStair /\ [][NextDetect]_vars

\* the sheet with only the cells of S
Only(S) == [p \in DOMAIN sheet |-> IF p \in S THEN sheet[p] ELSE NoValue]

\* the non-empty cells of the top row of the region, within its columns,
\* that are not cells of the region
Strays(table) ==
    {p \in NonEmpty(sheet) \ Members(table) :
        /\ p[1] = table.bounds.min_row
        /\ table.bounds.min_col <= p[2]
        /\ p[2] <= table.bounds.max_col}

\* C27 as stated: the has_header of a reported region is the value of the
\* header test on the sheet with only the member cells of the region
C27_AsStated ==
    \A t \in 1..Len(tables) :
        tables[t].has_header
            = _detect_header_row(Only(Members(tables[t])),
                                 tables[t].bounds.min_row,
                                 tables[t].bounds.min_col,
                                 tables[t].bounds.max_col)

\* the non-empty cells of the top row of the region within its columns
TopRowCells(table) ==
    {p \in NonEmpty(sheet) :
        /\ p[1] = table.bounds.min_row
        /\ table.bounds.min_col <= p[2]
        /\ p[2] <= table.bounds.max_col}

\* C27: the has_header of a reported region is true iff more than 70% of
\* the non-empty cells of its top row within [min_col, max_col] are text,
\* the cells that are not members of the region included
C27_TopRowCells ==
    \A t \in 1..Len(tables) :
        tables[t].has_header
            <=> 10 * Cardinality({p \in TopRowCells(tables[t]) :
                                     sheet[p] = "str"})
                    > 7 * Cardinality(TopRowCells(tables[t]))

\* a reported region whose one member in the top row is text, with an
\* integer in that row that is no member: has_header is false
C27_Witness ==
    \E t \in 1..Len(tables) :
        /\ Strays(tables[t]) # {}
        /\ \A p \in Strays(tables[t]) : sheet[p] = "int"
        /\ \A p \in TopRowCells(tables[t]) \ Strays(tables[t]) :
              sheet[p] = "str"
        /\ ~tables[t].has_header

(***************************************************************************)
(* Properties of extraction and export                                     *)
(***************************************************************************)
\* extract_structured_data has returned
Extracted == pc \in {"extracted", "paged", "exported"}

\* the row and column of a key of a cell map
CellAt(key) ==
    LET match == MatchCoord(key)[1]
    IN <<int(match.digits), column_index_from_string(match.letters)>>

\* the cells of the sheet's cell map
Retained == {CellAt(sheet_data.cells[i].key) : i \in 1..Len(sheet_data.cells)}

\* C29: data_bounds is absent iff the retained cell map is empty; otherwise
\* every retained cell lies inside data_bounds and each of the four bounds
\* is the row or column of some retained cell
C29_TightDataBounds ==
    Extracted =>
        /\ (sheet_data.data_bounds = None) <=> (sheet_data.cells = <<>>)
        /\ sheet_data.data_bounds # None =>
              /\ \A p \in Retained : InRect(p[1], p[2], DataBounds)
              /\ \E p \in Retained : p[1] = DataBounds.min_row
              /\ \E p \in Retained : p[1] = DataBounds.max_row
              /\ \E p \in Retained : p[2] = DataBounds.min_col
              /\ \E p \in Retained : p[2] = DataBounds.max_col

\* a sheet whose print area cuts off its first row and its last column, with
\* a cell retained
C29_Witness ==
    /\ Extracted
    /\ sheet_data.data_bounds # None
    /\ \E p \in NonEmpty(sheet) : p[1] < DataBounds.min_row
    /\ \E p \in NonEmpty(sheet) : p[2] > DataBounds.max_col

\* the print area of the sheet was parsed
PrintAreaParsed == sheet_data.internal.print_area_bounds # None

\* the non-empty cells outside the parsed print area
OutsidePrintArea ==
    {p \in NonEmpty(sheet) :
        ~InPrintArea(sheet_data.internal.print_area_bounds, p)}

\* the sheet with the cells of S emptied
Without(S) == [p \in DOMAIN sheet |-> IF p \in S THEN NoValue ELSE sheet[p]]

\* C22: with a well-formed print area, a cell outside the print area is not
\* in the cell map, the data bounds are those of the sheet without the
\* cells outside, no page has the cell, and no region that
\* detect_table_structure reported has it as a member
C22_PrintAreaOnly ==
    (Extracted /\ PrintAreaParsed) =>
        /\ Retained \cap OutsidePrintArea = {}
        /\ sheet_data.data_bounds
              = ExtractSheet(Without(OutsidePrintArea), cfg).data_bounds
        /\ pc = "paged" =>
              \A k \in 1..Len(pages_data), p \in OutsidePrintArea :
                  ~HasCell(k, p)
        /\ \A t \in 1..Len(tables) :
              \A i \in 1..Len(tables[t].cells) :
                  <<tables[t].cells[i].row, tables[t].cells[i].col>>
                      \notin OutsidePrintArea

\* the stored print area string has no range that can be parsed
Unparsable ==
    /\ cfg.print_area # None
    /\ cfg.print_area # Some(<<>>)
    /\ PrintAreaBounds(StripPrintArea(cfg.print_area[1])) = None

\* C23: when the print area string cannot be parsed as a range, the cell
\* map, the data bounds and the recorded print area are those of the same
\* sheet with no print area, the recorded print area being absent
C23_UnparsableAsAbsent ==
    (Extracted /\ Unparsable) =>
        LET plain == ExtractSheet(sheet, [cfg EXCEPT !.print_area = None])
        IN /\ sheet_data.cells = plain.cells
           /\ sheet_data.data_bounds = plain.data_bounds
           /\ sheet_data.print_area = plain.print_area
           /\ sheet_data.print_area = None

\* export_for_ai_processing has returned the paginated structure
PagedExported == pc = "exported" /\ export_data[1].use_pagination

\* the pages of the paginated structure
ExportPages == export_data[1].sheet.pages

\* the entries of the cells that were exported
ExportedCells ==
    IF export_data[1].use_pagination
    THEN UNION {{ExportPages[k].value.cells[i] :
                    i \in 1..Len(ExportPages[k].value.cells)} :
                k \in 1..Len(ExportPages)}
    ELSE {export_data[1].sheet.cells[i] :
             i \in 1..Len(export_data[1].sheet.cells)}

RECURSIVE SumCellCounts(_)
SumCellCounts(pages) ==
    IF pages = <<>> THEN 0
    ELSE pages[1].value.stats.cell_count + SumCellCounts(Tail(pages))

\* the counts of a page are the sizes of its collections
StatsMatch(page) ==
    /\ page.stats.cell_count = Len(page.cells)
    /\ page.stats.table_count = Len(page.tables)
    /\ page.stats.merged_count = Len(page.merged)

\* C25: in the paginated export meta.page_count is the number of pages, the
\* counts in the stats of a page are the sizes of its cells, tables and
\* merged collections, and the cell counts of the pages sum to at least
\* meta.total_cells; the pages of a call with overlap 0 have cell counts
\* that sum to the size of the cell map
C25_Counts ==
    /\ PagedExported =>
          /\ export_data[1].sheet.meta.page_count = Len(ExportPages)
          /\ \A k \in 1..Len(ExportPages) : StatsMatch(ExportPages[k].value)
          /\ SumCellCounts(ExportPages)
                >= export_data[1].sheet.meta.total_cells
          /\ export_data[1].sheet.meta.total_cells = Cardinality(Retained)
    /\ pc = "paged" =>
          /\ \A k \in 1..Len(pages_data) : StatsMatch(pages_data[k].value)
          /\ SumCellCounts(pages_data) >= Len(sheet_data.cells)
          /\ cfg.overlap = 0 =>
                SumCellCounts(pages_data) = Len(sheet_data.cells)

\* an export of several pages that share cells, with tables and merged
\* regions on them
C25_Witness ==
    /\ PagedExported
    /\ Len(ExportPages) > 1
    /\ sheet_data.tables # <<>>
    /\ SumCellCounts(ExportPages) > export_data[1].sheet.meta.total_cells
    /\ \E k \in 1..Len(ExportPages) :
          /\ ExportPages[k].value.stats.cell_count
                < export_data[1].sheet.meta.total_cells
          /\ ExportPages[k].value.stats.table_count < Len(sheet_data.tables)

\* the rectangle of a page of the export
ExportRange(k) ==
    LET m == MatchRange(ExportPages[k].value.range)[1]
    IN [min_row |-> int(m[2]), max_row |-> int(m[4]),
        min_col |-> column_index_from_string(m[1]),
        max_col |-> column_index_from_string(m[3])]

\* C30: after the constructor and a paginated export, meta.total_tables is
\* the number of regions detect_table_structure reports for the sheet, and
\* the tables of a page include every such region whose bounding box
\* intersects the page
C30_TablesAreRegions ==
    PagedExported =>
        /\ export_data[1].sheet.meta.total_tables = Len(tables)
        /\ \A k \in 1..Len(ExportPages), t \in 1..Len(tables) :
              RectsMeet(tables[t].bounds, ExportRange(k)) =>
                  \E i \in 1..Len(ExportPages[k].value.tables) :
                      ExportPages[k].value.tables[i].range
                          = RangeString(tables[t].bounds.min_row,
                                        tables[t].bounds.min_col,
                                        tables[t].bounds.max_row,
                                        tables[t].bounds.max_col)

(***************************************************************************)
(* More properties of region detection                                     *)
(***************************************************************************)
\* the scan of detect_table_structure has gone past the cell p
Scanned(p) ==
    \/ pc = "detected"
    \/ RowMajorLess(p, scan_pos)
    \/ p = scan_pos /\ pc = "scan"

\* C16: every reported region has at least 2 member cells; a non-empty cell
\* with no other non-empty cell within 2 rows and 2 columns is in no
\* reported region, it is in visited once the scan has gone past it, and
\* the cell that starts a region is never a visited one
C16_AtLeastTwoCells ==
    /\ \A i \in 1..Len(tables) :
          /\ tables[i].cell_count >= 2
          /\ Len(tables[i].cells) = tables[i].cell_count
          /\ Cardinality(Members(tables[i])) = tables[i].cell_count
    /\ \A p \in NonEmpty(sheet) :
          ~HasNeighbour(p) =>
              /\ \A i \in 1..Len(tables) : p \notin Members(tables[i])
              /\ Scanned(p) => Coordinate(p[1], p[2]) \in visited
    /\ (pc = "bfs" /\ region.cells_in_region = <<>>)
          => Coordinate(scan_pos[1], scan_pos[2]) \notin visited

\* the scan is over: a region was reported, and a cell on its own was
\* visited and left out, and a later cell was scanned after it
C16_Witness ==
    /\ pc = "detected"
    /\ Len(tables) = 1
    /\ \E p \in NonEmpty(sheet) :
          /\ ~HasNeighbour(p)
          /\ Coordinate(p[1], p[2]) \in visited
          /\ \A i \in 1..Len(tables) : p \notin Members(tables[i])
          /\ \E q \in NonEmpty(sheet) : RowMajorLess(p, q)

(***************************************************************************)
(* Region detection on a sheet with one block of rows, and                 *)
(* _extract_table_data on each reported region                             *)
(***************************************************************************)
\* top-left cells of the blocks
TableOrigins == {<<1, 1>>, <<2, 3>>}

\* kinds of the first row: all text, all numbers, or a number in the first
\* column and text in the others
TopKinds == {"str", "int", "mixed"}

\* rows after the first: every cell filled; every second row empty and
\* every fourth row without its first cell; or one cell per row on a diagonal
BodyShapes == {"full", "sparse", "diagonal"}

\* a grid of h rows and w columns from the cell origin on. The first row is
\* filled, or only its two ends are; the cells of the other rows have text
\* and numbers in a chequered pattern
TableSheet(origin, h, w, top, top_full, body) ==
    [p \in (origin[1]..(origin[1] + h - 1)) \X (origin[2]..(origin[2] + w - 1))
       |->
        LET i == p[1] - origin[1] + 1
            j == p[2] - origin[2] + 1
            chequered == IF (i + j) % 2 = 0 THEN "int" ELSE "str"
        IN IF i = 1
           THEN IF top_full \/ j \in {1, w}
                THEN (IF top = "mixed"
                      THEN (IF j = 1 THEN "int" ELSE "str")
                      ELSE top)
                ELSE NoValue
           ELSE IF body = "full" THEN chequered
           ELSE IF body = "sparse"
                THEN (IF i % 2 = 1 \/ (i % 4 = 0 /\ j = 1 /\ w > 1)
                      THEN NoValue
                      ELSE chequered)
           ELSE IF j = ((i - 1) % w) + 1 THEN chequered ELSE NoValue]

InitTable ==
    /\ \E origin \in TableOrigins, h \in 1..BlockRows, w \in 1..BlockCols,
          top \in TopKinds, top_full \in BOOLEAN, body \in BodyShapes :
          sheet = TableSheet(origin, h, w, top, top_full, body)
    /\ pc = "scan"
    /\ visited = {}
    /\ tables = <<>>
    /\ scan_pos = <<0, 0>>
    /\ region = IdleRegion
    /\ hdr = IdleHdr
    /\ sheet_data = IdleSheetData
    /\ cfg = IdleCfg
    /\ pages_data = <<>>
    /\ page_log = <<>>
    /\ table_data = <<>>
    /\ fmt = IdleFmt
    /\ export_data = None

\* lines 363-438, called with the next reported region
ExtractTableData ==
    /\ pc = "detected"
    /\ Len(table_data) < Len(tables)
    /\ table_data' =
          Append(table_data,
                 _extract_table_data(sheet, tables[Len(table_data) + 1]))
    /\ UNCHANGED <<pc, sheet, visited, tables, scan_pos, region, hdr,
                   sheet_data, cfg, pages_data, page_log, fmt, export_data>>

NextTable == NextDetect \/ ExtractTableData

SpecTable == InitTable /\ [][NextTable]_vars

(***************************************************************************)
(* Properties of _extract_table_data                                       *)
(***************************************************************************)
\* the columns of [min_col, max_col] of the bounds with a value in the row
FilledColumns(row, bounds) ==
    {col \in bounds.min_col..bounds.max_col :
        CellValue(sheet, row, col) # NoValue}

\* the rows the data rows are taken from, as the claim C17 names them
DataRowSpan(table_info) ==
    IF table_info.has_header
    THEN (table_info.header_row[1] + 1)..table_info.bounds.max_row
    ELSE table_info.bounds.min_row..table_info.bounds.max_row

\* C17: the data rows of a table are one record for each row of
\* header_row + 1 .. max_row (min_row .. max_row without a header) that has
\* a non-empty cell in [min_col, max_col], in increasing row order; a record
\* holds exactly the non-empty cells of its row in increasing column order,
\* no record has zero cells, and the header row is not among the data rows
C17_DataRows ==
    \A t \in 1..Len(table_data) :
        LET info == tables[t]
            data == table_data[t].data
            expected == {row \in DataRowSpan(info) :
                            FilledColumns(row, info.bounds) # {}}
        IN /\ {data[i].row_index : i \in 1..Len(data)} = expected
           /\ Len(data) = Cardinality(expected)
           /\ \A i \in 1..(Len(data) - 1) :
                 data[i].row_index < data[i + 1].row_index
           /\ \A i \in 1..Len(data) :
                 LET cells == data[i].cells
                     row == data[i].row_index
                 IN /\ Len(cells) > 0
                    /\ {cells[j].column : j \in 1..Len(cells)}
                          = FilledColumns(row, info.bounds)
                    /\ \A j \in 1..(Len(cells) - 1) :
                          cells[j].column < cells[j + 1].column
                    /\ \A j \in 1..Len(cells) :
                          /\ cells[j].row = row
                          /\ cells[j].value = sheet[<<row, cells[j].column>>]
                          /\ cells[j].value # NoValue
                    /\ info.has_header => row # info.header_row[1]

\* a table with a header, a row without cells between two data rows and a
\* data row with fewer cells than columns
C17_Witness ==
    /\ Len(table_data) >= 1
    /\ tables[1].has_header
    /\ \E row \in DataRowSpan(tables[1]) :
          /\ FilledColumns(row, tables[1].bounds) = {}
          /\ \E i, j \in 1..Len(table_data[1].data) :
                /\ table_data[1].data[i].row_index < row
                /\ table_data[1].data[j].row_index > row
    /\ \E i \in 1..Len(table_data[1].data) :
          Len(table_data[1].data[i].cells)
              < tables[1].bounds.max_col - tables[1].bounds.min_col + 1

\* C18: with has_header the headers are exactly the non-empty cells of the
\* header row within [min_col, max_col], in increasing column order, with
\* the column letter and the index of each, and there is at least one;
\* without has_header the list of headers is empty
C18_Headers ==
    \A t \in 1..Len(table_data) :
        LET info == tables[t]
            headers == table_data[t].headers
        IN IF info.has_header
           THEN /\ Len(headers) >= 1
                /\ {headers[i].column_index : i \in 1..Len(headers)}
                      = FilledColumns(info.header_row[1], info.bounds)
                /\ \A i \in 1..(Len(headers) - 1) :
                      headers[i].column_index < headers[i + 1].column_index
                /\ \A i \in 1..Len(headers) :
                      /\ headers[i].value
                            = sheet[<<info.header_row[1],
                                      headers[i].column_index>>]
                      /\ column_index_from_string(headers[i].column)
                            = headers[i].column_index
           ELSE headers = <<>>

\* a header row with an empty cell between two header cells
C18_Witness ==
    /\ Len(table_data) >= 1
    /\ tables[1].has_header
    /\ Len(table_data[1].headers) = 2
    /\ tables[1].bounds.max_col - tables[1].bounds.min_col + 1 = 3

\* C19 as stated: the alignment of a table is vertical iff it has at least
\* one header and more data rows than headers, and horizontal in every
\* other case
C19_AsStated ==
    \A t \in 1..Len(table_data) :
        LET vertical == /\ Len(table_data[t].headers) > 0
                        /\ Len(table_data[t].data) > Len(table_data[t].headers)
        IN /\ table_data[t].alignment = "vertical" <=> vertical
           /\ ~vertical => table_data[t].alignment = "horizontal"

\* C19 amended: the alignment is vertical iff the table has at least one
\* header and more data rows than headers, horizontal iff it has at least
\* one header and at most as many data rows as headers, and unknown iff it
\* has no headers
C19_Alignment ==
    \A t \in 1..Len(table_data) :
        LET headers == Len(table_data[t].headers)
            rows == Len(table_data[t].data)
        IN /\ table_data[t].alignment = "vertical"
                 <=> (headers > 0 /\ rows > headers)
           /\ table_data[t].alignment = "horizontal"
                 <=> (headers > 0 /\ rows <= headers)
           /\ table_data[t].alignment = "unknown" <=> headers = 0

\* a table with as many data rows as headers
C19_Witness ==
    /\ Len(table_data) >= 1
    /\ Len(table_data[1].headers) = 2
    /\ Len(table_data[1].data) = 2
    /\ table_data[1].alignment = "horizontal"

\* the non-empty cells are A1:C4, A1:C1 are text and A2:C4 hold text and
\* numbers
Scenario20 ==
    /\ NonEmpty(sheet) = (1..4) \X (1..3)
    /\ \A col \in 1..3 : sheet[<<1, col>>] = "str"
    /\ \E p, q \in (2..4) \X (1..3) : sheet[p] = "str" /\ sheet[q] = "int"

\* C20: on that grid detect_table_structure reports exactly one region, with
\* rows 1-4, columns 1-3, 12 cells, has_header and header row 1, and
\* _extract_table_data on it yields 3 headers and 3 data rows
C20_HeaderAndBody ==
    Scenario20 =>
        /\ Len(tables) <= 1
        /\ pc = "detected" =>
              /\ Len(tables) = 1
              /\ tables[1].bounds = [min_row |-> 1, max_row |-> 4,
                                     min_col |-> 1, max_col |-> 3]
              /\ tables[1].cell_count = 12
              /\ tables[1].has_header
              /\ tables[1].header_row = Some(1)
        /\ Len(table_data) = 1 =>
              /\ Len(table_data[1].headers) = 3
              /\ Len(table_data[1].data) = 3

C20_Witness ==
    /\ Scenario20
    /\ pc = "detected"
    /\ Len(tables) = 1
    /\ Len(table_data) = 1
    /\ table_data[1].non_empty_cells_count = 9

(***************************************************************************)
(* _format_cell_value                                                      *)
(*                                                                         *)
(* A cell is a record: kind is the type of cell.value ("none" for None),   *)
(* num is the value of a bool (0, 1) or an int, a float is num / 2^exp     *)
(* (every such float is exact in binary, and so is 100 times it), text is  *)
(* the value of a str, number_format is cell.number_format.                *)
(***************************************************************************)
\* str(n) for any integer n
StrInt(n) == IF n < 0 THEN <<"-">> \o str(-n) ELSE str(n)

RECURSIVE Pow(_, _)
Pow(b, e) == IF e = 0 THEN 1 ELSE b * Pow(b, e - 1)

\* a / 2^exp for a >= 0, rounded to the nearest integer, ties to even: the
\* rounding of the float formats 'f'
RoundHalfEven(a, exp) ==
    LET d == Pow(2, exp)
        q == a \div d
        r == a % d
    IN IF 2 * r > d \/ (2 * r = d /\ q % 2 = 1) THEN q + 1 ELSE q

\* f"{x:.{decimals}f}" for the float x = num / 2^exp
FormatFloat(num, exp, decimals) ==
    LET scale == Pow(10, decimals)
        q == RoundHalfEven((IF num < 0 THEN -num ELSE num) * scale, exp)
    IN (IF num < 0 THEN <<"-">> ELSE <<>>)
       \o str(q \div scale) \o <<".">> \o ZeroPad(str(q % scale), decimals)

\* line 455: cell.number_format and '%' in str(cell.number_format)
IsPercent(number_format) ==
    number_format # <<>> /\ Contains(number_format, "%")

\* lines 454-460
FormatNumber(cell) ==
    IF IsPercent(cell.number_format)
    THEN FormatFloat(cell.num * 100, IF cell.kind = "float" THEN cell.exp ELSE 0,
                     1) \o <<"%">>
    ELSE IF cell.kind = "float" THEN FormatFloat(cell.num, cell.exp, 2)
    ELSE StrInt(cell.num)

\* the test for a number made before the test for a bool
_format_cell_value_number_first(cell) ==
    IF cell.kind = "none" THEN <<>>
    ELSE IF cell.kind \in {"bool", "int", "float"} THEN FormatNumber(cell)
    ELSE cell.text

\* lines 450-462
_format_cell_value(cell) ==
    IF cell.kind = "none" THEN <<>>
    ELSE IF cell.kind = "bool"
    THEN (IF cell.num = 1 THEN <<"Y", "e", "s">> ELSE <<"N", "o">>)
    ELSE IF cell.kind \in {"int", "float"} THEN FormatNumber(cell)
    ELSE cell.text

\* number formats of the cells of the model: none, General, 0%, 0.00, 0.0%
NumberFormats ==
    {<<>>, <<"G", "e", "n", "e", "r", "a", "l">>, <<"0", "%">>,
     <<"0", ".", "0", "0">>, <<"0", ".", "0", "%">>}

Texts == {<<"a">>, <<"5", "0", "%">>, <<"T", "r", "u", "e">>}

\* the values of the cells of the model
CellValues ==
    {[kind |-> "none", num |-> 0, exp |-> 0, text |-> <<>>]}
    \cup {[kind |-> "bool", num |-> b, exp |-> 0, text |-> <<>>] : b \in 0..1}
    \cup {[kind |-> "int", num |-> n, exp |-> 0, text |-> <<>>] :
             n \in (-MaxNum)..MaxNum}
    \cup {[kind |-> "float", num |-> n, exp |-> e, text |-> <<>>] :
             n \in (-MaxNum)..MaxNum, e \in 0..MaxExp}
    \cup {[kind |-> "str", num |-> 0, exp |-> 0, text |-> t] : t \in Texts}

InitFormat ==
    /\ \E value \in CellValues, number_format \in NumberFormats :
          fmt = [cell |-> [kind |-> value.kind, num |-> value.num,
                           exp |-> value.exp, text |-> value.text,
                           number_format |-> number_format],
                 result |-> None]
    /\ pc = "format"
    /\ sheet = <<>>
    /\ visited = {}
    /\ tables = <<>>
    /\ scan_pos = <<0, 0>>
    /\ region = IdleRegion
    /\ hdr = IdleHdr
    /\ sheet_data = IdleSheetData
    /\ cfg = IdleCfg
    /\ pages_data = <<>>
    /\ page_log = <<>>
    /\ table_data = <<>>
    /\ export_data = None

\* lines 440-462
FormatCell ==
    /\ pc = "format"
    /\ fmt' = [fmt EXCEPT !.result = Some(_format_cell_value(fmt.cell))]
    /\ pc' = "formatted"
    /\ UNCHANGED <<sheet, visited, tables, scan_pos, region, hdr, sheet_data,
                   cfg, pages_data, page_log, table_data, export_data>>

NextFormat == FormatCell

SpecFormat == InitFormat /\ [][NextFormat]_vars

\* the text is an optional "-", digits, ".", and exactly decimals digits
IsFixed(s, decimals) ==
    LET body == IF s # <<>> /\ s[1] = "-" THEN Tail(s) ELSE s
        dot == Find(body, ".", 1)
    IN /\ dot >= 2
       /\ Len(body) = dot + decimals
       /\ \A i \in 1..Len(body) : i # dot => IsDigit(body[i])

\* the number written by the digits of a text that IsFixed, without the sign
\* and the point
FixedDigits(s) ==
    LET body == IF s[1] = "-" THEN Tail(s) ELSE s
        IsDigitChar(ch) == IsDigit(ch)
    IN int(SelectSeq(body, IsDigitChar))

\* the text is the float num / 2^exp times factor with decimals digits after
\* the point, at most half a unit of the last digit away, with its sign
RendersFloat(s, num, exp, factor, decimals) ==
    LET magnitude == (IF num < 0 THEN -num ELSE num) * factor * Pow(10, decimals)
        diff == FixedDigits(s) * Pow(2, exp) - magnitude
    IN /\ IsFixed(s, decimals)
       /\ (s[1] = "-") <=> (num < 0)
       /\ 2 * diff <= Pow(2, exp)
       /\ 2 * diff >= -Pow(2, exp)

\* C21: _format_cell_value gives the empty string for an empty cell, Yes or
\* No for a bool whatever its number format, value * 100 with one decimal
\* and a percent sign for another number whose format contains "%" (0.25
\* gives 25.0%), two decimals for any other float, the plain digits for any
\* other int, and the text itself for a str
C21_OneRendering ==
    pc = "formatted" =>
        LET cell == fmt.cell
            result == fmt.result[1]
            percent == \E i \in 1..Len(cell.number_format) :
                           cell.number_format[i] = "%"
            exp == IF cell.kind = "float" THEN cell.exp ELSE 0
        IN CASE cell.kind = "none" -> result = <<>>
             [] cell.kind = "bool" ->
                   result = IF cell.num = 1 THEN <<"Y", "e", "s">>
                            ELSE <<"N", "o">>
             [] cell.kind \in {"int", "float"} /\ percent ->
                   /\ result # <<>>
                   /\ result[Len(result)] = "%"
                   /\ RendersFloat(SubSeq(result, 1, Len(result) - 1),
                                   cell.num, exp, 100, 1)
                   /\ (cell.kind = "float" /\ cell.num = 1 /\ cell.exp = 2)
                         => result = <<"2", "5", ".", "0", "%">>
             [] cell.kind = "float" /\ ~percent ->
                   RendersFloat(result, cell.num, cell.exp, 1, 2)
             [] cell.kind = "int" /\ ~percent ->
                   /\ result = (IF cell.num < 0 THEN <<"-">> ELSE <<>>)
                                  \o str(IF cell.num < 0 THEN -cell.num
                                         ELSE cell.num)
                   /\ Find(result, ".", 1) = 0
             [] cell.kind = "str" -> result = cell.text

\* the float 0.25 with the format 0% has been formatted
C21_Witness ==
    /\ pc = "formatted"
    /\ fmt.cell.kind = "float"
    /\ fmt.cell.num = 1
    /\ fmt.cell.exp = 2
    /\ fmt.cell.number_format = <<"0", "%">>
    /\ fmt.result = Some(<<"2", "5", ".", "0", "%">>)

====
